---------------------------- MODULE Spec2Model ----------------------------
(***************************************************************************)
(* cron-converter: the field value-set (Part), the schedule (Cron) and the *)
(* calendar seeker (Seeker), modelled from the sources.                    *)
(*                                                                         *)
(* The repository holds three Seeker implementations:                      *)
(*   "ts"     src/unnamed/part_001 lines 8-212    (moment, mutable dates)  *)
(*   "luxon"  src/src/seeker.js    lines 13-207   (luxon, immutable dates) *)
(*   "luxon2" src/src/seeker.js    lines 222-405  (luxon, second copy)     *)
(* The variable impl says which one a seeker runs.                         *)
(***************************************************************************)
EXTENDS Integers, Sequences, FiniteSets, TLC

VARIABLES
  impl,        \* which Seeker implementation this seeker is
  parts,       \* cron.parts: the five value arrays, or Null
  now,         \* Seeker.now: the anchor
  date,        \* Seeker.date: the cursor
  aliased,     \* TRUE while this.now and this.date are one mutable object
  pristine,    \* Seeker.pristine
  lastOp,      \* the last Seeker call: "new", "next", "prev", "reset"
  lastStatus,  \* how it ended: "none", "ok", "unschedulable", "hang", "ReferenceError"
  lastResult,  \* the instant it returned (NoDate when it returned none)
  prevResult,  \* the instant the call before it returned (NoDate when it returned none)
  startDate,   \* the cursor when the last call began
  anchor0,     \* the anchor as the constructor stored it
  reference,   \* the instant the constructor was given
  prevOp,      \* the Seeker call before the last one
  calls,       \* number of Seeker calls made
  pUnit,       \* Part.unit as an index into units; 0 while no Part is constructed
  pOptions,    \* Part.options
  pValues,     \* Part.values, Undefined until a parse has assigned it
  pLastOp,     \* the last Part call: "new", "fromString", "fromArray", "toString"
  pErr,        \* what it threw; "none" when it returned
  pText,       \* the text it returned; <<>> when it returned none
  pInput,      \* the argument of the parse call, where the behaviour keeps it
  cGiven,      \* the Options record new Cron(options) was given
  cOptions,    \* Cron.options
  cLastOp,     \* the last Cron call; Null while no Cron is constructed
  cErr,        \* what it threw; "none" when it returned
  cText,       \* the text it returned; <<>> when it returned none
  heap,        \* the date objects of two seekers over one Cron, by object id
  pair,        \* the two seekers: ids of their now and date objects, pristine
  alone,       \* each of the two seekers as it runs with no other seeker
  pairLast     \* the last call on one of the two, and what it returns alone

pairVars == <<heap, pair, alone, pairLast>>

seekerVars == <<impl, parts, now, date, aliased, pristine, lastOp, lastStatus,
                lastResult, prevResult, startDate, anchor0, reference, prevOp, calls, pairVars>>

partVars == <<pUnit, pOptions, pValues, pLastOp, pErr, pText, pInput>>

cronVars == <<cGiven, cOptions, cLastOp, cErr, cText>>

Null == "null"

-----------------------------------------------------------------------------
(* Bounds of the model *)

MaxCalls == 3

MaxTextLen == 3

MaxArrLen == 2

MaxPairCalls == 2

-----------------------------------------------------------------------------
(* The calendar library (moment / luxon), as the seekers use it *)

\* NaN: what parseInt gives for a text with no leading numeral, and what the
\* getters of an invalid date read; it equals no value a set can hold and every
\* comparison with it is false (see Lt)
NaN == -1000000

InvalidDate == [y |-> 0, mo |-> 0, d |-> 0, h |-> 0, mi |-> 0, s |-> 0, ms |-> 0]

NoDate == [y |-> -1, mo |-> 0, d |-> 0, h |-> 0, mi |-> 0, s |-> 0, ms |-> 0]

IsValid(dt) == dt.mo # 0

IsLeap(y) == (y % 4 = 0 /\ y % 100 # 0) \/ y % 400 = 0

DaysInMonth(y, mo) ==
  IF mo = 2 THEN (IF IsLeap(y) THEN 29 ELSE 28)
  ELSE IF mo \in {4, 6, 9, 11} THEN 30 ELSE 31

LeapsBefore(y) == ((y - 1) \div 4) - ((y - 1) \div 100) + ((y - 1) \div 400)

DaysBeforeMonth(y, mo) ==
  LET cum == <<0, 31, 59, 90, 120, 151, 181, 212, 243, 273, 304, 334>>
  IN cum[mo] + (IF mo > 2 /\ IsLeap(y) THEN 1 ELSE 0)

\* days since 2000-01-01
DayNumber(y, mo, d) ==
  365 * (y - 2000) + (LeapsBefore(y) - LeapsBefore(2000)) + DaysBeforeMonth(y, mo) + (d - 1)

\* moment's date.day(): 0 = Sunday .. 6 = Saturday (2000-01-01 was a Saturday)
MomentDay(dt) == (DayNumber(dt.y, dt.mo, dt.d) + 6) % 7

\* luxon's date.weekday: 1 = Monday .. 7 = Sunday
LuxonWeekday(dt) == IF MomentDay(dt) = 0 THEN 7 ELSE MomentDay(dt)

MinuteKey(dt) == (DayNumber(dt.y, dt.mo, dt.d) * 24 + dt.h) * 60 + dt.mi

Before(a, b) ==
  \/ MinuteKey(a) < MinuteKey(b)
  \/ MinuteKey(a) = MinuteKey(b) /\ a.s * 1000 + a.ms < b.s * 1000 + b.ms

PlusMonth(dt) ==
  LET y2  == IF dt.mo = 12 THEN dt.y + 1 ELSE dt.y
      mo2 == IF dt.mo = 12 THEN 1 ELSE dt.mo + 1
      dim == DaysInMonth(y2, mo2)
  IN [dt EXCEPT !.y = y2, !.mo = mo2, !.d = IF dt.d > dim THEN dim ELSE dt.d]

MinusMonth(dt) ==
  LET y2  == IF dt.mo = 1 THEN dt.y - 1 ELSE dt.y
      mo2 == IF dt.mo = 1 THEN 12 ELSE dt.mo - 1
      dim == DaysInMonth(y2, mo2)
  IN [dt EXCEPT !.y = y2, !.mo = mo2, !.d = IF dt.d > dim THEN dim ELSE dt.d]

PlusDay(dt) ==
  IF dt.d < DaysInMonth(dt.y, dt.mo) THEN [dt EXCEPT !.d = dt.d + 1]
  ELSE IF dt.mo = 12 THEN [dt EXCEPT !.y = dt.y + 1, !.mo = 1, !.d = 1]
  ELSE [dt EXCEPT !.mo = dt.mo + 1, !.d = 1]

MinusDay(dt) ==
  IF dt.d > 1 THEN [dt EXCEPT !.d = dt.d - 1]
  ELSE IF dt.mo = 1 THEN [dt EXCEPT !.y = dt.y - 1, !.mo = 12, !.d = 31]
  ELSE [dt EXCEPT !.mo = dt.mo - 1, !.d = DaysInMonth(dt.y, dt.mo - 1)]

PlusHour(dt) ==
  IF dt.h < 23 THEN [dt EXCEPT !.h = dt.h + 1] ELSE PlusDay([dt EXCEPT !.h = 0])

MinusHour(dt) ==
  IF dt.h > 0 THEN [dt EXCEPT !.h = dt.h - 1] ELSE MinusDay([dt EXCEPT !.h = 23])

PlusMinute(dt) ==
  IF dt.mi < 59 THEN [dt EXCEPT !.mi = dt.mi + 1] ELSE PlusHour([dt EXCEPT !.mi = 0])

MinusMinute(dt) ==
  IF dt.mi > 0 THEN [dt EXCEPT !.mi = dt.mi - 1] ELSE MinusHour([dt EXCEPT !.mi = 59])

\* date.add(1, unit) / date.subtract(1, unit); an invalid luxon date returns itself
Step(dt, reverse, unit) ==
  IF ~IsValid(dt) THEN dt
  ELSE IF unit = "month" THEN (IF reverse THEN MinusMonth(dt) ELSE PlusMonth(dt))
  ELSE IF unit = "day" THEN (IF reverse THEN MinusDay(dt) ELSE PlusDay(dt))
  ELSE IF unit = "hour" THEN (IF reverse THEN MinusHour(dt) ELSE PlusHour(dt))
  ELSE (IF reverse THEN MinusMinute(dt) ELSE PlusMinute(dt))

StartOf(dt, unit) ==
  IF ~IsValid(dt) THEN dt
  ELSE IF unit = "month" THEN [dt EXCEPT !.d = 1, !.h = 0, !.mi = 0, !.s = 0, !.ms = 0]
  ELSE IF unit = "day" THEN [dt EXCEPT !.h = 0, !.mi = 0, !.s = 0, !.ms = 0]
  ELSE IF unit = "hour" THEN [dt EXCEPT !.mi = 0, !.s = 0, !.ms = 0]
  ELSE [dt EXCEPT !.s = 0, !.ms = 0]

EndOf(dt, unit) ==
  IF ~IsValid(dt) THEN dt
  ELSE IF unit = "month"
    THEN [dt EXCEPT !.d = DaysInMonth(dt.y, dt.mo), !.h = 23, !.mi = 59, !.s = 59, !.ms = 999]
  ELSE IF unit = "day" THEN [dt EXCEPT !.h = 23, !.mi = 59, !.s = 59, !.ms = 999]
  ELSE IF unit = "hour" THEN [dt EXCEPT !.mi = 59, !.s = 59, !.ms = 999]
  ELSE [dt EXCEPT !.s = 59, !.ms = 999]

\* date[operation](1, unit)[reset](unit)
Shift(dt, reverse, unit) ==
  IF reverse THEN EndOf(Step(dt, TRUE, unit), unit)
  ELSE StartOf(Step(dt, FALSE, unit), unit)

\* the getters; an invalid luxon date reads NaN everywhere
MonthOf(dt)  == IF IsValid(dt) THEN dt.mo ELSE NaN
DayOf(dt)    == IF IsValid(dt) THEN dt.d ELSE NaN
HourOf(dt)   == IF IsValid(dt) THEN dt.h ELSE NaN
MinuteOf(dt) == IF IsValid(dt) THEN dt.mi ELSE NaN

\* the weekday number the seeker reads: date.day() in ts, date.weekday in luxon
WeekdayOf(dt, im) ==
  IF ~IsValid(dt) THEN NaN
  ELSE IF im = "ts" THEN MomentDay(dt) ELSE LuxonWeekday(dt)


-----------------------------------------------------------------------------
(* util: range; Part.has *)

\* range(start, end): the integers start..end as an array (empty when end < start)
Range(start, end) == [i \in 1..(end - start + 1) |-> start + i - 1]

\* Part.has: this.values.indexOf(value) > -1
Has(values, value) == \E i \in DOMAIN values : values[i] = value

-----------------------------------------------------------------------------
(* The search: shiftMonth, shiftDay, shiftHour, shiftMinute, findDate.        *)
(* Each shift returns [date, isChanged, hang]; hang says the loop ran a body  *)
(* that left the date as it was, so the loop condition can never change.      *)

Stay(dt)    == [date |-> dt, isChanged |-> FALSE, hang |-> FALSE]
Changed(dt) == [date |-> dt, isChanged |-> TRUE, hang |-> FALSE]
Hang(dt)    == [date |-> dt, isChanged |-> FALSE, hang |-> TRUE]

\* while (!parts[3].has(month)) { date = date[operation](1, "months")[reset]("month") }
\* shiftMonthLoop is the loop after one run of its body took old to dt
RECURSIVE shiftMonthLoop(_, _, _, _)
shiftMonthLoop(ps, old, dt, reverse) ==
  IF dt # old /\ ~Has(ps[4], MonthOf(dt))
  THEN shiftMonthLoop(ps, dt, Shift(dt, reverse, "month"), reverse)
  ELSE IF dt = old THEN Hang(dt) ELSE Stay(dt)

shiftMonth(ps, dt, reverse) ==
  IF Has(ps[4], MonthOf(dt)) THEN Stay(dt)
  ELSE shiftMonthLoop(ps, dt, Shift(dt, reverse, "month"), reverse)

\* a shiftDay that passes a day over only when neither set holds it
DayRejectedByBoth(ps, dt, im) == ~Has(ps[3], DayOf(dt)) /\ ~Has(ps[5], WeekdayOf(dt, im))

\* the loop condition of shiftDay: the day is passed over unless BOTH sets hold it
DayRejected(ps, dt, im) == ~Has(ps[3], DayOf(dt)) \/ ~Has(ps[5], WeekdayOf(dt, im))

RECURSIVE shiftDayLoop(_, _, _, _, _, _)
shiftDayLoop(ps, old, dt, reverse, im, currentMonth) ==
  IF currentMonth = MonthOf(dt) /\ dt # old /\ DayRejected(ps, dt, im)
  THEN shiftDayLoop(ps, dt, Shift(dt, reverse, "day"), reverse, im, currentMonth)
  ELSE IF currentMonth # MonthOf(dt) THEN Changed(dt)
  ELSE IF dt = old THEN Hang(dt) ELSE Stay(dt)

shiftDay(ps, dt, reverse, im) ==
  IF ~DayRejected(ps, dt, im) THEN Stay(dt)
  ELSE shiftDayLoop(ps, dt, Shift(dt, reverse, "day"), reverse, im, MonthOf(dt))

\* the step of the hour loop: luxon2 calls date.set(...) on an immutable DateTime
\* and drops the result, so its date stays what it was
HourStep(dt, reverse, im) == IF im = "luxon2" THEN dt ELSE Shift(dt, reverse, "hour")

RECURSIVE shiftHourLoop(_, _, _, _, _, _)
shiftHourLoop(ps, old, dt, reverse, im, currentDay) ==
  IF currentDay = DayOf(dt) /\ dt # old /\ ~Has(ps[2], HourOf(dt))
  THEN shiftHourLoop(ps, dt, HourStep(dt, reverse, im), reverse, im, currentDay)
  ELSE IF currentDay # DayOf(dt) THEN Changed(dt)
  ELSE IF dt = old THEN Hang(dt) ELSE Stay(dt)

shiftHour(ps, dt, reverse, im) ==
  IF Has(ps[2], HourOf(dt)) THEN Stay(dt)
  ELSE shiftHourLoop(ps, dt, HourStep(dt, reverse, im), reverse, im, DayOf(dt))

MinuteStep(dt, reverse, im) == IF im = "luxon2" THEN dt ELSE Shift(dt, reverse, "minute")

RECURSIVE shiftMinuteLoop(_, _, _, _, _, _)
shiftMinuteLoop(ps, old, dt, reverse, im, currentHour) ==
  IF currentHour = HourOf(dt) /\ dt # old /\ ~Has(ps[1], MinuteOf(dt))
  THEN shiftMinuteLoop(ps, dt, MinuteStep(dt, reverse, im), reverse, im, currentHour)
  ELSE IF currentHour # HourOf(dt) THEN Changed(dt)
  ELSE IF dt = old THEN Hang(dt) ELSE Stay(dt)

shiftMinute(ps, dt, reverse, im) ==
  IF Has(ps[1], MinuteOf(dt)) THEN Stay(dt)
  ELSE shiftMinuteLoop(ps, dt, MinuteStep(dt, reverse, im), reverse, im, HourOf(dt))

\* let retry = 24
RetryStart == 24

\* One run of the body of findDate's loop. isChanged says a coarser field moved,
\* so the loop goes round again.
passMinute(n) == n

passHour(ps, h, reverse, im) ==
  IF h.hang \/ h.isChanged THEN h ELSE passMinute(shiftMinute(ps, h.date, reverse, im))

passDay(ps, d, reverse, im) ==
  IF d.hang \/ d.isChanged THEN d ELSE passHour(ps, shiftHour(ps, d.date, reverse, im), reverse, im)

passMonth(ps, m, reverse, im) ==
  IF m.hang THEN m ELSE passDay(ps, shiftDay(ps, m.date, reverse, im), reverse, im)

pass(ps, dt, reverse, im) == passMonth(ps, shiftMonth(ps, dt, reverse), reverse, im)

\* while (--retry) { ... }: returns [status, date, passes]; retry is the counter
\* after --retry, p the outcome of the pass just run
RECURSIVE findDateLoop(_, _, _, _, _)
findDateLoop(ps, p, reverse, im, retry) ==
  IF ~p.hang /\ p.isChanged /\ retry - 1 # 0
  THEN findDateLoop(ps, pass(ps, p.date, reverse, im), reverse, im, retry - 1)
  ELSE [status |-> IF p.hang THEN "hang" ELSE IF p.isChanged THEN "unschedulable" ELSE "ok",
        date |-> p.date, passes |-> RetryStart - retry]

findDateSearch(ps, dt, reverse, im) ==
  IF RetryStart - 1 = 0 THEN [status |-> "unschedulable", date |-> dt, passes |-> 0]
  ELSE findDateLoop(ps, pass(ps, dt, reverse, im), reverse, im, RetryStart - 1)

\* date.seconds(0).milliseconds(0); return moment(date)
findDateEnd(r, z) ==
  IF r.status = "ok"
  THEN [status |-> "ok", date |-> z, result |-> z, passes |-> r.passes]
  ELSE [status |-> r.status, date |-> r.date, result |-> NoDate, passes |-> r.passes]

ZeroSeconds(dt) == IF IsValid(dt) THEN [dt EXCEPT !.s = 0, !.ms = 0] ELSE dt

findDateFrom(r) == findDateEnd(r, ZeroSeconds(r.date))

\* findDate: [status, date (where the search left the date), result, passes]
findDate(ps, dt, reverse, im) ==
  findDateFrom(findDateSearch(ps, IF reverse THEN Step(dt, TRUE, "minute") ELSE dt, reverse, im))

-----------------------------------------------------------------------------
(* Texts are sequences of one-character strings; the JavaScript string       *)
(* functions Part and Cron use                                               *)

Digits == <<"0", "1", "2", "3", "4", "5", "6", "7", "8", "9">>

IsDigit(c) == \E i \in 1..10 : Digits[i] = c

DigitValue(c) == (CHOOSE i \in 1..10 : Digits[i] = c) - 1

Lower == <<"a", "b", "c", "d", "e", "f", "g", "h", "i", "j", "k", "l", "m",
           "n", "o", "p", "q", "r", "s", "t", "u", "v", "w", "x", "y", "z">>

Upper == <<"A", "B", "C", "D", "E", "F", "G", "H", "I", "J", "K", "L", "M",
           "N", "O", "P", "Q", "R", "S", "T", "U", "V", "W", "X", "Y", "Z">>

\* str.toUpperCase()
ToUpperCase(str) ==
  [i \in 1..Len(str) |->
     IF \E k \in 1..26 : Lower[k] = str[i]
     THEN Upper[CHOOSE k \in 1..26 : Lower[k] = str[i]]
     ELSE str[i]]

\* str.indexOf(pat), 1-based; 0 when pat does not occur
IndexOf(str, pat) ==
  LET hits == {i \in 1..(Len(str) - Len(pat) + 1) : SubSeq(str, i, i + Len(pat) - 1) = pat}
  IN IF hits = {} THEN 0 ELSE CHOOSE i \in hits : \A j \in hits : i <= j

\* str.replace(pat, rep) with a string pattern: the FIRST occurrence only
ReplaceFirst(str, pat, rep) ==
  IF IndexOf(str, pat) = 0 THEN str
  ELSE SubSeq(str, 1, IndexOf(str, pat) - 1) \o rep
         \o SubSeq(str, IndexOf(str, pat) + Len(pat), Len(str))

\* str.split(sep) for a one-character separator
RECURSIVE Split(_, _)
Split(str, sep) ==
  IF IndexOf(str, <<sep>>) = 0 THEN <<str>>
  ELSE <<SubSeq(str, 1, IndexOf(str, <<sep>>) - 1)>>
         \o Split(SubSeq(str, IndexOf(str, <<sep>>) + 1, Len(str)), sep)

\* arr.join(sep)
RECURSIVE Join(_, _)
Join(strs, sep) ==
  IF Len(strs) = 0 THEN <<>>
  ELSE IF Len(strs) = 1 THEN strs[1]
  ELSE strs[1] \o <<sep>> \o Join(Tail(strs), sep)

\* the value of a run of digits
RECURSIVE DigitsValue(_)
DigitsValue(ds) ==
  IF Len(ds) = 0 THEN 0
  ELSE 10 * DigitsValue(SubSeq(ds, 1, Len(ds) - 1)) + DigitValue(ds[Len(ds)])

\* the number of leading characters of str that are digits
LeadingDigits(str) ==
  IF \A i \in 1..Len(str) : IsDigit(str[i]) THEN Len(str)
  ELSE (CHOOSE i \in 1..Len(str) : ~IsDigit(str[i]) /\ \A j \in 1..(i - 1) : IsDigit(str[j])) - 1

\* \s, as far as the inputs go
IsSpace(c) == c = " " \/ c = "\t"

\* str with its leading white space dropped
RECURSIVE TrimStart(_)
TrimStart(str) ==
  IF Len(str) > 0 /\ IsSpace(str[1]) THEN TrimStart(Tail(str)) ELSE str

\* str.trim()
RECURSIVE TrimEnd(_)
TrimEnd(str) ==
  IF Len(str) > 0 /\ IsSpace(str[Len(str)]) THEN TrimEnd(SubSeq(str, 1, Len(str) - 1)) ELSE str

Trim(str) == TrimEnd(TrimStart(str))

\* str.replace(/\s+/g, " ")
RECURSIVE CollapseSpaces(_)
CollapseSpaces(str) ==
  IF Len(str) = 0 THEN <<>>
  ELSE IF IsSpace(str[1]) THEN <<" ">> \o CollapseSpaces(TrimStart(str))
  ELSE <<str[1]>> \o CollapseSpaces(Tail(str))

\* parseInt(str, 10): leading blanks, an optional sign, then the longest run of
\* digits; whatever follows is ignored; NaN when there is no digit
ParseUnsigned(str) ==
  IF LeadingDigits(str) = 0 THEN NaN ELSE DigitsValue(SubSeq(str, 1, LeadingDigits(str)))

ParseSigned(str) ==
  IF Len(str) > 0 /\ str[1] = "-"
  THEN (IF ParseUnsigned(Tail(str)) = NaN THEN NaN ELSE 0 - ParseUnsigned(Tail(str)))
  ELSE IF Len(str) > 0 /\ str[1] = "+" THEN ParseUnsigned(Tail(str))
  ELSE ParseUnsigned(str)

parseInt(str) == ParseSigned(TrimStart(str))

\* n.toString() / `${n}` for an integer
RECURSIVE NatToString(_)
NatToString(n) ==
  IF n < 10 THEN <<Digits[n + 1]>> ELSE NatToString(n \div 10) \o <<Digits[(n % 10) + 1]>>

NumberToString(n) ==
  IF n = NaN THEN <<"N", "a", "N">>
  ELSE IF n < 0 THEN <<"-">> \o NatToString(0 - n) ELSE NatToString(n)

\* a < b in JavaScript: false as soon as either side is NaN (or undefined)
Lt(a, b) == a # NaN /\ b # NaN /\ a < b

-----------------------------------------------------------------------------
(* util: sort, dedup, flatten *)

\* dedup(array): the first occurrence of each entry, in order
Dedup(arr) ==
  LET keep == {i \in 1..Len(arr) : \A j \in 1..(i - 1) : arr[j] # arr[i]}
      Nth(k) == CHOOSE i \in keep : Cardinality({j \in keep : j <= i}) = k
  IN [k \in 1..Cardinality(keep) |-> arr[Nth(k)]]

\* sort(array) of distinct numbers, ascending (a - b comparator)
SortDistinct(arr) ==
  LET vs == {arr[i] : i \in 1..Len(arr)}
  IN [k \in 1..Len(arr) |-> CHOOSE v \in vs : Cardinality({w \in vs : w < v}) = k - 1]

\* flatten(arrays)
RECURSIVE Flatten(_)
Flatten(arrs) == IF Len(arrs) = 0 THEN <<>> ELSE arrs[1] \o Flatten(Tail(arrs))

-----------------------------------------------------------------------------
(* units: the five field descriptors, in field order *)

MonthNames ==
  << <<"J","A","N">>, <<"F","E","B">>, <<"M","A","R">>, <<"A","P","R">>,
     <<"M","A","Y">>, <<"J","U","N">>, <<"J","U","L">>, <<"A","U","G">>,
     <<"S","E","P">>, <<"O","C","T">>, <<"N","O","V">>, <<"D","E","C">> >>

WeekdayNames ==
  << <<"S","U","N">>, <<"M","O","N">>, <<"T","U","E">>, <<"W","E","D">>,
     <<"T","H","U">>, <<"F","R","I">>, <<"S","A","T">> >>

units ==
  << [name |-> "minute",  min |-> 0, max |-> 59, alt |-> <<>>],
     [name |-> "hour",    min |-> 0, max |-> 23, alt |-> <<>>],
     [name |-> "day",     min |-> 1, max |-> 31, alt |-> <<>>],
     [name |-> "month",   min |-> 1, max |-> 12, alt |-> MonthNames],
     [name |-> "weekday", min |-> 0, max |-> 6,  alt |-> WeekdayNames] >>

-----------------------------------------------------------------------------
(* Part: a parse returns [err, values]; err = "none" means it did not throw *)

\* Part.values before any parse; no parsed array holds NaN
Undefined == <<NaN>>

Ok(values)  == [err |-> "none", values |-> values]
Throw(what) == [err |-> what, values |-> <<>>]

\* a fixSunday that leaves 7 where it is
fixSundayNever(unit, values) == values

\* Part.fixSunday
fixSunday(unit, values) ==
  IF unit.name = "weekday"
  THEN [i \in 1..Len(values) |-> IF values[i] = 7 THEN 0 ELSE values[i]]
  ELSE values

\* an outOfRange that looks at the first value only
outOfRangeFirstOnly(unit, values) ==
  IF Len(values) = 0 THEN NaN
  ELSE IF Lt(values[1], unit.min) THEN values[1] ELSE NaN

\* Part.outOfRange: the offending value, or NaN for the code's undefined
outOfRange(unit, values) ==
  IF Len(values) = 0 THEN NaN
  ELSE IF Lt(values[1], unit.min) THEN values[1]
  ELSE IF Lt(unit.max, values[Len(values)]) THEN values[Len(values)]
  ELSE NaN

\* const value = this.outOfRange(values); if (typeof value !== "undefined") throw
checkRange(unit, values) ==
  IF outOfRange(unit, values) # NaN THEN Throw("out of range") ELSE Ok(values)

\* Part.parseRange
parseRange(str) ==
  LET subparts == Split(str, "-")
  IN IF Len(subparts) = 1
     THEN (IF parseInt(subparts[1]) = NaN THEN Throw("Invalid value")
           ELSE Ok(<<parseInt(subparts[1])>>))
     ELSE IF Len(subparts) = 2
     THEN (IF Lt(parseInt(subparts[2]), parseInt(subparts[1]))
           THEN Throw("Max range is less than min range")
           ELSE IF parseInt(subparts[1]) = NaN \/ parseInt(subparts[2]) = NaN
           THEN Ok(<<>>)   \* range(): i <= end is false at once
           ELSE Ok(Range(parseInt(subparts[1]), parseInt(subparts[2]))))
     ELSE Throw("Invalid value")

\* rangeString.split(",").map(parseRange): the first throw ends the map
RECURSIVE parseRanges(_)
parseRanges(segments) ==
  IF Len(segments) = 0 THEN Ok(<<>>)
  ELSE IF parseRange(segments[1]).err # "none" THEN parseRange(segments[1])
  ELSE IF parseRanges(Tail(segments)).err # "none" THEN parseRanges(Tail(segments))
  ELSE Ok(<<parseRange(segments[1]).values>> \o parseRanges(Tail(segments)).values)

\* Part.parseStep: hasStep is FALSE for the code's undefined argument
parseStep(hasStep, step) ==
  IF ~hasStep THEN Ok(<<>>)
  ELSE IF parseInt(step) = NaN \/ parseInt(step) < 1 THEN Throw("Invalid interval step value")
  ELSE Ok(<<parseInt(step)>>)

\* an applyInterval that keeps the multiples of the step
applyIntervalFromZero(values, step) ==
  IF Len(step) = 0 \/ Len(values) = 0 THEN values
  ELSE SelectSeq(values, LAMBDA v : v % step[1] = 0)

\* Part.applyInterval; step is <<>> (undefined) or <<n>>
applyInterval(values, step) ==
  IF Len(step) = 0 \/ Len(values) = 0 THEN values
  ELSE SelectSeq(values, LAMBDA v : v % step[1] = values[1] % step[1] \/ v = values[1])

\* Part.replaceAlternatives: one str.replace per name, after upper-casing
RECURSIVE replaceNames(_, _, _, _)
replaceNames(str, alt, i, min) ==
  IF i > Len(alt) THEN str
  ELSE replaceNames(ReplaceFirst(str, alt[i], NumberToString(i - 1 + min)), alt, i + 1, min)

replaceAlternatives(unit, str) ==
  IF Len(unit.alt) > 0 THEN replaceNames(ToUpperCase(str), unit.alt, 1, unit.min) ELSE str

\* the values fromString has parsed before it looks at the step
parsedValues(unit, rangeString) ==
  IF rangeString = <<"*">> THEN Ok(Range(unit.min, unit.max))
  ELSE IF parseRanges(Split(rangeString, ",")).err # "none"
  THEN parseRanges(Split(rangeString, ","))
  ELSE checkRange(unit, SortDistinct(Dedup(fixSunday(unit,
                          Flatten(parseRanges(Split(rangeString, ",")).values)))))

\* the tail of fromString: parseStep, applyInterval, the empty check
stepped(parsed, step) ==
  IF parsed.err # "none" THEN parsed
  ELSE IF step.err # "none" THEN step
  ELSE IF Len(applyInterval(parsed.values, step.values)) = 0 THEN Throw("Empty interval value")
  ELSE Ok(applyInterval(parsed.values, step.values))

\* Part.fromString, as a function of the text
fromStringParts(unit, stringParts) ==
  IF Len(stringParts) > 2 THEN Throw("Invalid value")
  ELSE stepped(parsedValues(unit, replaceAlternatives(unit, stringParts[1])),
               IF Len(stringParts) = 2 THEN parseStep(TRUE, stringParts[2])
               ELSE parseStep(FALSE, <<>>))

fromString(unit, str) == fromStringParts(unit, Split(str, "/"))

\* Part.fromArray, as a function of the array
fromArray(unit, arr) ==
  IF \E i \in 1..Len(arr) : arr[i] = NaN THEN Throw("Invalid value")
  ELSE IF Len(arr) = 0 THEN Throw("Empty interval value")
  ELSE checkRange(unit, SortDistinct(Dedup(fixSunday(unit, arr))))

\* Part.min, Part.max
min(values) == values[1]
max(values) == values[Len(values)]

\* an isFull that looks at the two ends only
isFullByEnds(unit, values) == min(values) = unit.min /\ max(values) = unit.max

\* Part.isFull
isFull(unit, values) == Len(values) = unit.max - unit.min + 1

\* Part.getStep: <<>> for undefined
getStep(values) ==
  IF Len(values) > 2 /\ values[2] - values[1] > 1 THEN <<values[2] - values[1]>> ELSE <<>>

\* Part.isInterval
isInterval(values, step) ==
  \A i \in 2..Len(values) : values[i] - values[i - 1] = step

\* an isFullInterval that does not ask where the interval starts
isFullIntervalFromAnywhere(unit, values, step) ==
  /\ max(values) + step > unit.max
  /\ (max(values) - min(values)) % step = 0
  /\ Len(values) = (max(values) - min(values)) \div step + 1

\* Part.isFullInterval; (max - min) / step + 1 is a whole number only when step divides
isFullInterval(unit, values, step) ==
  /\ min(values) = unit.min
  /\ max(values) + step > unit.max
  /\ (max(values) - min(values)) % step = 0
  /\ Len(values) = (max(values) - min(values)) \div step + 1

\* Part.toRanges: <<v>> for a single value, <<a, b>> for a run. A run ends at
\* each index whose value is not its successor's less one (the last index is one:
\* self[index + 1] is undefined there); startPart is the first index after the
\* run before, and is null when that index ends the run itself
runEnds(values) ==
  {i \in 1..Len(values) : i = Len(values) \/ values[i] # values[i + 1] - 1}

runEnd(values, k) ==
  CHOOSE e \in runEnds(values) : Cardinality({x \in runEnds(values) : x < e}) = k - 1

runStart(values, k) == IF k = 1 THEN 1 ELSE runEnd(values, k - 1) + 1

\* a toRanges that gives every value on its own
toRangesSingles(values) == [k \in 1..Len(values) |-> <<values[k]>>]

toRanges(values) ==
  [k \in 1..Cardinality(runEnds(values)) |->
     IF runStart(values, k) < runEnd(values, k)
     THEN <<values[runStart(values, k)], values[runEnd(values, k)]>>
     ELSE <<values[runEnd(values, k)]>>]

\* Part.formatValue
formatValue(unit, options, value) ==
  IF \/ options.outputWeekdayNames /\ unit.name = "weekday"
     \/ options.outputMonthNames /\ unit.name = "month"
  THEN unit.alt[value - unit.min + 1]
  ELSE NumberToString(value)

\* the .map callback of toString: `${from}-${to}` or the single value
formatRange(unit, options, range) ==
  IF Len(range) = 2
  THEN formatValue(unit, options, range[1]) \o <<"-">> \o formatValue(unit, options, range[2])
  ELSE formatValue(unit, options, range[1])

\* an interval branch that never writes H
formatIntervalPlain(unit, options, values, step) ==
  IF isFullInterval(unit, values, step)
  THEN <<"*", "/">> \o NumberToString(step)
  ELSE formatValue(unit, options, min(values)) \o <<"-">>
         \o formatValue(unit, options, max(values)) \o <<"/">> \o NumberToString(step)

\* the interval branch of toString
formatInterval(unit, options, values, step) ==
  IF isFullInterval(unit, values, step)
  THEN (IF options.outputHashes THEN <<"H", "/">> ELSE <<"*", "/">>) \o NumberToString(step)
  ELSE IF options.outputHashes
  THEN <<"H", "(">> \o formatValue(unit, options, min(values)) \o <<"-">>
         \o formatValue(unit, options, max(values)) \o <<")", "/">> \o NumberToString(step)
  ELSE formatValue(unit, options, min(values)) \o <<"-">>
         \o formatValue(unit, options, max(values)) \o <<"/">> \o NumberToString(step)

\* Part.toString
toString(unit, options, values) ==
  IF isFull(unit, values) THEN (IF options.outputHashes THEN <<"H">> ELSE <<"*">>)
  ELSE IF Len(getStep(values)) > 0 /\ isInterval(values, getStep(values)[1])
  THEN formatInterval(unit, options, values, getStep(values)[1])
  ELSE Join([i \in 1..Len(toRanges(values)) |-> formatRange(unit, options, toRanges(values)[i])],
            ",")

Booleans == {TRUE, FALSE}

\* the time zones an Options record names here, none of which has daylight saving
Zones == {"Asia/Tokyo", "America/Phoenix"}

\* Options: every field is optional; an absent flag is FALSE here and an absent
\* timezone is Null (the constructor tests each of them for truthiness only)
Options ==
  [outputHashes : Booleans, outputWeekdayNames : Booleans, outputMonthNames : Booleans,
   timezone : Zones \cup {Null}]

\* new InternalOptions(options): a flag is copied when it is truthy; timezone keeps
\* its initial null, no statement of the constructor assigns it
NewInternalOptions(options) ==
  [outputHashes       |-> IF options.outputHashes THEN options.outputHashes ELSE FALSE,
   outputWeekdayNames |-> IF options.outputWeekdayNames THEN options.outputWeekdayNames ELSE FALSE,
   outputMonthNames   |-> IF options.outputMonthNames THEN options.outputMonthNames ELSE FALSE,
   timezone           |-> Null]

\* new InternalOptions(undefined): the field initialisers alone
DefaultOptions ==
  [outputHashes |-> FALSE, outputWeekdayNames |-> FALSE, outputMonthNames |-> FALSE,
   timezone |-> Null]

\* the InternalOptions objects the constructor can build
InternalOptions == {NewInternalOptions(o) : o \in Options}

-----------------------------------------------------------------------------
(* Schedules and reference instants the seekers are built over *)

Full(i) == IF i = 1 THEN Range(0, 59) ELSE IF i = 2 THEN Range(0, 23)
           ELSE IF i = 3 THEN Range(1, 31) ELSE IF i = 4 THEN Range(1, 12)
           ELSE Range(0, 6)

ScheduleArrays ==
  { <<Full(1), Full(2), Full(3), Full(4), Full(5)>>,            \* * * * * *
    <<<<0>>, <<0>>, <<1>>, <<1>>, Full(5)>>,                    \* 0 0 1 1 *
    <<<<0>>, <<0>>, <<31>>, <<2>>, Full(5)>>,                   \* 0 0 31 2 *
    <<<<0, 30>>, <<12>>, Full(3), Full(4), <<0>>>>,             \* 0,30 12 * * 0
    <<<<15>>, <<9, 17>>, <<1, 15>>, Full(4), <<1, 2, 3, 4, 5>>>>, \* 15 9,17 1,15 * 1-5
    <<<<0>>, <<0>>, <<29>>, <<2>>, <<1>>>>,                     \* 0 0 29 2 1
    <<<<59>>, <<23>>, <<31>>, <<12>>, Full(5)>>,                \* 59 23 31 12 *
    <<<<0>>, Full(2), Full(3), Full(4), <<0, 6>>>> }            \* 0 * * * 0,6

Instant(y, mo, d, h, mi, s, ms) ==
  [y |-> y, mo |-> mo, d |-> d, h |-> h, mi |-> mi, s |-> s, ms |-> ms]

RefInstants ==
  { Instant(2024, 3, 10, 12, 30, 0, 0),     \* a Sunday
    Instant(2024, 2, 28, 23, 59, 30, 0),
    Instant(2023, 12, 31, 23, 59, 0, 0),    \* a Sunday
    Instant(2024, 1, 1, 0, 0, 0, 500),
    Instant(2024, 3, 15, 9, 15, 0, 0),      \* a Friday
    Instant(2016, 3, 1, 0, 0, 0, 0),
    Instant(2020, 3, 1, 0, 0, 0, 0) }       \* 24 Februaries before Monday 2044-02-29

Impls == {"ts", "luxon", "luxon2"}

-----------------------------------------------------------------------------
(* Seeker *)

\* hours east of UTC of a zone, the whole year round
ZoneOffset(tz) == IF tz = "Asia/Tokyo" THEN 9 ELSE IF tz = "America/Phoenix" THEN -7 ELSE 0

RECURSIVE ShiftHours(_, _)
ShiftHours(dt, k) ==
  IF k = 0 THEN dt
  ELSE IF k > 0 THEN ShiftHours(PlusHour(dt), k - 1)
  ELSE ShiftHours(MinusHour(dt), k + 1)

\* moment.tz(now, zone), date.setZone(zone): the wall clock of the UTC instant dt in zone tz
InZone(dt, tz) == ShiftHours(dt, ZoneOffset(tz))

\* the date new Seeker(cron, now) starts from: the reference in the zone of
\* cron.options.timezone when that is set, moved on one minute when its seconds > 0
SeekerDate(ref, tz) ==
  LET d == IF tz # Null THEN InZone(ref, tz) ELSE ref
  IN IF d.s > 0 THEN Step(d, FALSE, "minute") ELSE d

\* new Seeker(cron, now) over a Cron without timezone; this.now and this.date are
\* the same object
SeekerInit ==
  /\ impl \in Impls
  /\ parts \in ScheduleArrays
  /\ \E ref \in RefInstants :
       LET d0 == SeekerDate(ref, Null)
       IN /\ now = d0
          /\ date = d0
          /\ anchor0 = d0
          /\ reference = ref
          /\ startDate = d0
  /\ aliased = (impl = "ts")
  /\ pristine = TRUE
  /\ lastOp = "new"
  /\ prevOp = "new"
  /\ lastStatus = "none"
  /\ lastResult = NoDate
  /\ prevResult = NoDate
  /\ calls = 0

\* no call has been made on a seeker of a pair
NoPairCall ==
  [who |-> 0, op |-> Null, status |-> "none", result |-> NoDate,
   aloneStatus |-> "none", aloneResult |-> NoDate, n |-> 0]

\* no two seekers share a Cron
NoPair ==
  /\ heap = <<>>
  /\ pair = <<>>
  /\ alone = <<>>
  /\ pairLast = NoPairCall

\* no Seeker has been constructed
NoSeeker ==
  /\ NoPair
  /\ impl = Null
  /\ now = NoDate /\ date = NoDate /\ anchor0 = NoDate /\ startDate = NoDate
  /\ reference = NoDate
  /\ aliased = FALSE
  /\ pristine = TRUE
  /\ lastOp = Null /\ prevOp = Null
  /\ lastStatus = "none"
  /\ lastResult = NoDate
  /\ prevResult = NoDate
  /\ calls = 0

seekerOnlyVars == <<impl, now, date, aliased, pristine, lastOp, lastStatus,
                    lastResult, prevResult, startDate, anchor0, reference, prevOp, calls, pairVars>>

CanCall == parts # Null /\ lastStatus # "hang" /\ calls < MaxCalls

\* a call that leaves this.date where it was
DateAfterKeeps(im, old, d0, r) == old

\* what a call leaves in this.date, given the date handed to findDate and its outcome r:
\* ts mutates the moment in place (also when findDate throws); luxon assigns the
\* returned DateTime; luxon2 never assigns this.date
DateAfter(im, old, d0, r) ==
  IF im = "ts" THEN r.date
  ELSE IF im = "luxon" THEN (IF r.status = "ok" THEN r.result ELSE d0)
  ELSE old

Record(op, r, d0) ==
  /\ prevOp' = lastOp
  /\ lastOp' = op
  /\ lastStatus' = r.status
  /\ lastResult' = r.result
  /\ prevResult' = lastResult
  /\ startDate' = d0
  /\ calls' = calls + 1

\* a search that uses up the smallest value of every set it reads
PartsAfterDrained(ps) == [i \in 1..5 |-> Tail(ps[i])]

\* cron.parts after a call of the seeker: findDate and the shift functions reach the
\* five Parts through has() alone, which reads this.values and assigns nothing
PartsAfter(ps) == ps

\* a next() that never adds a minute
NextStartSame(isPristine, dt) == dt

\* where next() starts its search: the cursor on a pristine seeker, one minute
\* past the cursor otherwise
NextStart(isPristine, dt) == IF isPristine THEN dt ELSE Step(dt, FALSE, "minute")

\* Seeker.next()
next ==
  /\ CanCall
  /\ pristine' = FALSE
  /\ IF impl = "luxon2" /\ ~pristine
     THEN \* date = date.plus(...): date is not declared (strict mode)
          /\ Record("next", [status |-> "ReferenceError", result |-> NoDate], date)
          /\ UNCHANGED <<date, now>>
     ELSE LET d0 == NextStart(pristine, date)
          IN \E r \in {findDate(parts, d0, FALSE, impl)} :
             /\ Record("next", r, d0)
             /\ date' = DateAfter(impl, date, d0, r)
             /\ now' = IF aliased THEN date' ELSE now
  /\ parts' = PartsAfter(parts)
  /\ UNCHANGED <<impl, aliased, anchor0, reference, pairVars, partVars, cronVars>>

\* Seeker.prev()
prev ==
  /\ CanCall
  /\ pristine' = FALSE
  /\ \E r \in {findDate(parts, date, TRUE, impl)} :
        /\ Record("prev", r, date)
        /\ date' = DateAfter(impl, date, date, r)
        /\ now' = IF aliased THEN date' ELSE now
  /\ parts' = PartsAfter(parts)
  /\ UNCHANGED <<impl, aliased, anchor0, reference, pairVars, partVars, cronVars>>

\* what reset() puts in this.date: ts moment(this.now), a clone; luxon
\* DateTime.fromJSDate(this.now.toJSDate()); luxon2 DateTime.fromJSDate(this.now),
\* whose argument is no JS Date, which luxon answers with an invalid DateTime
\* a reset() that leaves the cursor where it is
ResetDateKeepsCursor(im, anchor, cursor) == cursor

ResetDate(im, anchor, cursor) == IF im = "luxon2" THEN InvalidDate ELSE anchor

\* Seeker.reset()
reset ==
  /\ CanCall
  /\ pristine' = TRUE
  /\ date' = ResetDate(impl, now, date)
  /\ aliased' = FALSE
  /\ Record("reset", [status |-> "none", result |-> NoDate], date)
  /\ UNCHANGED <<impl, parts, now, anchor0, reference, pairVars, partVars, cronVars>>

-----------------------------------------------------------------------------
(* The texts and arrays the parsers are given *)

FieldAlphabet == {"1", "5", "-", ",", "/", "*"}

\* every text over FieldAlphabet of at most n characters
TextsUpTo(n) == UNION {[1..k -> FieldAlphabet] : k \in 0..n}

SampleTexts ==
  {
    <<"0", "-", "4">>, <<"S", "U", "N">>,
    <<"S", "U", "N", ",", "M", "O", "N", ",", "T", "U", "E">>,
    <<"m", "o", "n", "-", "f", "r", "i">>, <<"1", ",", "3", ",", "2">>,
    <<"1", ",", "2", ",", "5", "-", "1", "0">>,
    <<"1", "-", "1", "0", "/", "5">>, <<"5", "-", "3", "0", "/", "5">>,
    <<"5", "-", "2", "0", ",", "3", "5", "-", "4", "5", "/", "5">>,
    <<"5", ",", "5", ",", "6", ",", "6", ",", "7", ",", "7">>,
    <<"1", "-", "1">>, <<"*", "/", "1", "5">>, <<"*", "/", "2">>,
    <<"*", "/", "1", "0">>, <<"0", "-", "5", "9">>, <<"0", "-", "2", "3">>,
    <<"1", "-", "3", "1">>, <<"1", "-", "1", "2">>, <<"0", "-", "6">>,
    <<"1", "-", "7">>, <<"5", "-", "7">>,
    <<"J", "A", "N", "-", "D", "E", "C">>, <<"7">>, <<"6", "0">>,
    <<"1", "x">>, <<"a">>, <<"1", "-", "5", "/", "0">>,
    <<"1", "-", "5", "/", "x">>, <<"1", "/", "2", "/", "3">>,
    <<"1", "-", "2", "-", "3">>, <<"0", "-", "1", "0", "/", "5">>,
    <<"1", "-", "5", "/", "2">>,
    <<"M", "O", "N", ",", "W", "E", "D", ",", "M", "O", "N">>,
    <<"j", "a", "n", ",", "M", "A", "R">>
  }

FieldTexts == TextsUpTo(MaxTextLen) \cup SampleTexts

ArrayValues == {0, 1, 2, 7, 31, 60, -1, NaN}

ArraysUpTo(n) == UNION {[1..k -> ArrayValues] : k \in 0..n}

SampleArrays ==
  {
    <<0, 1, 2, 3, 4>>, <<5, 10, 15, 20, 25, 30>>, <<0, 15, 30, 45>>,
    <<0, 2, 4>>, <<1, 11, 21, 31>>, <<0, 3, 6>>, <<1, 3, 5>>, <<7, 0, 3>>,
    <<3, 1, 2, 1>>, <<1, 2, 5, 6, 7, 9>>, <<2, 4, 6>>, <<0, 1, 2, 5>>,
    Range(0, 59), Range(0, 23), Range(1, 31), Range(1, 12), Range(0, 6),
    Range(1, 7), Range(0, 60), <<0, 6, 12, 18>>
  }

FieldArrays == ArraysUpTo(MaxArrLen) \cup SampleArrays

\* one text per field of a schedule: valid everywhere, valid somewhere, valid nowhere
CronFieldTexts == << <<"*">>, <<"1", "-", "5">>, <<"6", "0">> >>

SampleCronTexts ==
  {
    <<"0", " ", "0", " ", "1", " ", "J", "A", "N", " ", "S", "U", "N">>,
    <<" ", "0", " ", " ", "0", " ", " ", " ", "1", " ", " ", " ", " ", "J", "A", "N", " ", " ", " ", " ", " ", "S", "U", "N", " ">>,
    <<"5", "9", " ", "2", "3", " ", "3", "1", " ", "D", "E", "C", " ", "S", "A", "T">>,
    <<"0", "-", "5", "9", " ", "0", "-", "2", "3", " ", "1", "-", "3", "1", " ", "1", "-", "1", "2", " ", "5", "-", "7">>,
    <<"*", "/", "5", " ", "0", "-", "5", "/", "1", "0", " ", "1", "-", "3", "1", " ", "J", "A", "N", "-", "D", "E", "C", " ", "S", "U", "N", "-", "S", "A", "T">>,
    <<"*", "/", "5", " ", "0", ",", "5", " ", "1", "-", "3", "1", " ", "J", "A", "N", "-", "D", "E", "C", " ", "S", "U", "N", "-", "S", "A", "T">>,
    <<>>, <<"*", " ", "*", " ", "*", " ", "*">>,
    <<"*", " ", "*", " ", "*", " ", "*", " ", "*", " ", "*">>,
    <<"*", "\t", "*", "\t", "*", " ", "*", " ", "*">>,
    <<"0", " ", "0", " ", "1", " ", "1", " ", "7">>
  }

CronTexts ==
  {Join([i \in 1..5 |-> CronFieldTexts[f[i]]], " ") : f \in [1..5 -> 1..3]}
    \cup SampleCronTexts

CronFieldArrays == << <<1>>, <<2, 1>>, <<>> >>

CronArrays ==
  {[i \in 1..5 |-> CronFieldArrays[f[i]]] : f \in [1..5 -> 1..3]}
    \cup { <<>>, <<<<1>>, <<1>>, <<1>>, <<1>>>>,
           <<<<1>>, <<1>>, <<1>>, <<1>>, <<1>>, <<1>>>>,
           <<<<0, 30>>, <<12>>, <<31>>, <<12>>, <<7>>>>,
           <<Range(0, 59), Range(0, 23), Range(1, 31), Range(1, 12), Range(0, 6)>>,
           <<<<0>>, <<0, 6, 12, 18>>, <<1, 15>>, <<2, 4, 6>>, <<1, 2, 3, 4, 5>>>> }

-----------------------------------------------------------------------------
(* Part, as an object: constructor, fromString, fromArray, toString *)

\* new Part(unit, options)
\* no parse argument is kept
NoInput == [kind |-> "none", v |-> <<>>]

PartInit ==
  /\ pUnit \in 1..5
  /\ pOptions \in InternalOptions
  /\ pValues = Undefined
  /\ pLastOp = "new"
  /\ pErr = "none"
  /\ pText = <<>>
  /\ pInput = NoInput

\* no Part has been constructed
NoPart ==
  /\ pUnit = 0
  /\ pOptions = DefaultOptions
  /\ pValues = Undefined
  /\ pLastOp = Null
  /\ pErr = "none"
  /\ pText = <<>>
  /\ pInput = NoInput

\* every outcome Part.fromString has on a text of FieldTexts, per unit
fromStringOutcomes == [u \in 1..5 |-> {fromString(units[u], str) : str \in FieldTexts}]

\* every outcome Part.fromArray has on an array of FieldArrays, per unit
fromArrayOutcomes == [u \in 1..5 |-> {fromArray(units[u], arr) : arr \in FieldArrays}]

\* an assignment made whether or not the parse threw
AssignedAlways(old, r) == r.values

\* this.values = ... / this.parts = ... is the last statement: a throw skips it
Assigned(old, r) == IF r.err = "none" THEN r.values ELSE old

\* part.fromString(str), for a str of FieldTexts
PartFromString ==
  /\ pUnit # 0
  /\ \E r \in fromStringOutcomes[pUnit] :
       /\ pValues' = Assigned(pValues, r)
       /\ pErr' = r.err
  /\ pLastOp' = "fromString"
  /\ pText' = <<>>
  /\ UNCHANGED <<pUnit, pOptions, pInput, seekerVars, cronVars>>

\* part.fromArray(arr), for an arr of FieldArrays
PartFromArray ==
  /\ pUnit # 0
  /\ \E r \in fromArrayOutcomes[pUnit] :
       /\ pValues' = Assigned(pValues, r)
       /\ pErr' = r.err
  /\ pLastOp' = "fromArray"
  /\ pText' = <<>>
  /\ UNCHANGED <<pUnit, pOptions, pInput, seekerVars, cronVars>>

\* part.toString(); this.values.length is a TypeError before the first parse
PartToString ==
  /\ pUnit # 0
  /\ pLastOp' = "toString"
  /\ IF pValues = Undefined
     THEN pErr' = "TypeError" /\ pText' = <<>>
     ELSE pErr' = "none" /\ pText' = toString(units[pUnit], pOptions, pValues)
  /\ UNCHANGED <<pUnit, pOptions, pValues, pInput, seekerVars, cronVars>>

-----------------------------------------------------------------------------
(* Cron: constructor, fromString, fromArray, toString *)

\* parts.map(... part.fromString(str) ...): field idx onwards, given the values of
\* the fields before it; the first throw ends the map, and values then holds the
\* fields parsed so far
RECURSIVE mapFromString(_, _, _)
mapFromString(fields, idx, done) ==
  IF idx > Len(fields) THEN Ok(done)
  ELSE IF fromString(units[idx], fields[idx]).err # "none"
  THEN [err |-> fromString(units[idx], fields[idx]).err, values |-> done]
  ELSE mapFromString(fields, idx + 1, Append(done, fromString(units[idx], fields[idx]).values))

\* cronArr.map(... part.fromArray(partArr) ...), likewise
RECURSIVE mapFromArray(_, _, _)
mapFromArray(cronArr, idx, done) ==
  IF idx > Len(cronArr) THEN Ok(done)
  ELSE IF fromArray(units[idx], cronArr[idx]).err # "none"
  THEN [err |-> fromArray(units[idx], cronArr[idx]).err, values |-> done]
  ELSE mapFromArray(cronArr, idx + 1, Append(done, fromArray(units[idx], cronArr[idx]).values))

\* Cron.fromString, as a function of the text
splitFromString(fields) ==
  IF Len(fields) = 5 THEN mapFromString(fields, 1, <<>>)
  ELSE Throw("Invalid cron string format")

cronFromString(str) == splitFromString(Split(Trim(CollapseSpaces(str)), " "))

\* Cron.fromArray, as a function of the array
cronFromArray(cronArr) ==
  IF Len(cronArr) = 5 THEN mapFromArray(cronArr, 1, <<>>)
  ELSE Throw("Invalid cron array")

\* Cron.toString for parts that are not null: this.parts.join(" ")
cronToString(options, ps) ==
  Join([i \in 1..Len(ps) |-> toString(units[i], options, ps[i])], " ")

cronFromStringOutcomes == {cronFromString(str) : str \in CronTexts}

cronFromArrayOutcomes == {cronFromArray(arr) : arr \in CronArrays}

\* new Cron(options)
CronInit ==
  /\ \E o \in Options :
       /\ o.timezone = Null
       /\ cGiven = o
       /\ cOptions = NewInternalOptions(o)
  /\ parts = Null
  /\ cLastOp = "new"
  /\ cErr = "none"
  /\ cText = <<>>

\* no Cron object is modelled; a Seeker's parts are given to it directly
NoCron ==
  /\ cGiven = DefaultOptions
  /\ cOptions = DefaultOptions
  /\ cLastOp = Null
  /\ cErr = "none"
  /\ cText = <<>>

\* cron.fromString(str), for a str of CronTexts
CronFromString ==
  /\ cLastOp # Null
  /\ \E r \in cronFromStringOutcomes :
       /\ parts' = Assigned(parts, r)
       /\ cErr' = r.err
  /\ cLastOp' = "fromString"
  /\ cText' = <<>>
  /\ UNCHANGED <<cGiven, cOptions, seekerOnlyVars, partVars>>

\* cron.fromArray(arr), for an arr of CronArrays
CronFromArray ==
  /\ cLastOp # Null
  /\ \E r \in cronFromArrayOutcomes :
       /\ parts' = Assigned(parts, r)
       /\ cErr' = r.err
  /\ cLastOp' = "fromArray"
  /\ cText' = <<>>
  /\ UNCHANGED <<cGiven, cOptions, seekerOnlyVars, partVars>>

\* cron.toString()
CronToString ==
  /\ cLastOp # Null
  /\ cLastOp' = "toString"
  /\ IF parts = Null
     THEN cErr' = "No schedule found" /\ cText' = <<>>
     ELSE cErr' = "none" /\ cText' = cronToString(cOptions, parts)
  /\ UNCHANGED <<cGiven, cOptions, parts, seekerOnlyVars, partVars>>

-----------------------------------------------------------------------------
vars == <<seekerVars, partVars, cronVars>>

Init == SeekerInit /\ NoPair /\ NoPart /\ NoCron

Next == next \/ prev \/ reset

Spec == Init /\ [][Next]_vars

ParseInit ==
  /\ NoSeeker
  /\ \/ PartInit /\ NoCron /\ parts = Null
     \/ CronInit /\ NoPart

ParseNext ==
  \/ PartFromString \/ PartFromArray \/ PartToString
  \/ CronFromString \/ CronFromArray \/ CronToString

ParseSpec == ParseInit /\ [][ParseNext]_vars

-----------------------------------------------------------------------------
(* A Cron built with an Options record, and a Seeker scheduled from it *)

ZoneSchedules ==
  { <<<<0>>, <<0>>, Full(3), Full(4), Full(5)>>,      \* 0 0 * * *
    <<<<30>>, <<9>>, Full(3), Full(4), Full(5)>> }    \* 30 9 * * *

ZoneRefInstants ==
  { Instant(2024, 1, 16, 3, 30, 0, 0),
    Instant(2024, 1, 16, 20, 0, 30, 0) }

\* new Cron(options) with its schedule set, and no Seeker yet
ZoneInit ==
  /\ NoSeeker
  /\ NoPart
  /\ parts \in ZoneSchedules
  /\ \E o \in Options :
       /\ cGiven = o
       /\ cOptions = NewInternalOptions(o)
  /\ cLastOp = "fromArray"
  /\ cErr = "none"
  /\ cText = <<>>

\* cron.schedule(now): new Seeker(cron, now)
ZoneSchedule ==
  /\ impl = Null
  /\ impl' \in Impls
  /\ \E ref \in ZoneRefInstants :
       \E d0 \in {SeekerDate(ref, cOptions.timezone)} :
         /\ now' = d0
         /\ date' = d0
         /\ anchor0' = d0
         /\ startDate' = d0
         /\ reference' = ref
  /\ aliased' = (impl' = "ts")
  /\ pristine' = TRUE
  /\ lastOp' = "new"
  /\ prevOp' = "new"
  /\ lastStatus' = "none"
  /\ lastResult' = NoDate
  /\ prevResult' = NoDate
  /\ calls' = 0
  /\ UNCHANGED <<parts, pairVars, partVars, cronVars>>

ZoneNext == ZoneSchedule \/ ((impl # Null) /\ next)

ZoneSpec == ZoneInit /\ [][ZoneNext]_vars

-----------------------------------------------------------------------------
(* One Part and its first parse call, with the argument kept in pInput, so   *)
(* that what Part.fromString, Part.fromArray and Part.toString compute can   *)
(* be compared with the text or array they were given.                       *)

IntervalEnds == {0, 1, 5, 7, 12, 31, 59}

IntervalSteps == {1, 2, 3, 5, 60}

\* the text "a-b/s"
IntervalText(a, b, s) ==
  NumberToString(a) \o <<"-">> \o NumberToString(b) \o <<"/">> \o NumberToString(s)

IntervalTexts ==
  {IntervalText(a, b, s) : a \in IntervalEnds, b \in IntervalEnds, s \in IntervalSteps}

\* texts with names, with repeated names, and with tokens that are no integers
TokenTexts ==
  {
    <<"M", "O", "N", ",", "M", "O", "N">>, <<"m", "o", "n", ",", "M", "O", "N">>,
    <<"M", "o", "n", "-", "F", "r", "i">>, <<"J", "A", "N", ",", "J", "A", "N">>,
    <<"s", "u", "n", ",", "S", "U", "N", ",", "S", "u", "N">>,
    <<"F", "R", "I", "-", "S", "A", "T">>, <<"d", "e", "c">>,
    <<"M", "O", "N", "-", "F", "R", "I", "/", "2">>,
    <<"1", ",", "-", "5">>, <<"1", "-">>, <<"-", "1">>,
    <<"1", ",", "a", "-", "b">>, <<"1", "-", "x">>, <<"x", "-", "1">>,
    <<"1", ",", ",", "2">>, <<"1", " ", "2">>, <<"1", ".", "5">>,
    <<"1", "-", "7", "/", "2">>, <<"5", "-", "7", "/", "2">>,
    <<"0", ",", "7">>, <<"7", ",", "7">>, <<"6", "-", "7">>, <<"0", "-", "7">>,
    <<"1", ",", "0", ",", "3", ",", "2", ",", "5", ",", "4", ",", "6">>,
    <<"1", ",", "4", "-", "9", "/", "3">>, <<"2", "-", "4", ",", "7", "/", "2">>,
    <<"3", ",", "8", "/", "5">>, <<"3", ",", "7", "/", "5">>,
    <<"9", ",", "3", ",", "6", ",", "3", "/", "3">>,
    <<"1", "-", "5", "/", "2", "x">>, <<"*", "/", "1", ".", "5">>,
    <<"1", "-", "5", "/", "-", "2">>, <<"1", "-", "5", "/", "1", "0", "0">>
  }

FieldInputTexts == FieldTexts \cup IntervalTexts \cup TokenTexts

\* what Part.fromString answers to each text of FieldInputTexts, per unit
fieldFromString ==
  [u \in 1..5 |-> [str \in FieldInputTexts |-> fromString(units[u], str)]]

\* what Part.fromArray answers to each array of FieldArrays, per unit
fieldFromArray ==
  [u \in 1..5 |-> [arr \in FieldArrays |-> fromArray(units[u], arr)]]

FieldInit ==
  /\ NoSeeker
  /\ parts = Null
  /\ PartInit
  /\ NoCron

\* the first part.fromString(str) of a Part, for a str of FieldInputTexts
FieldFromString ==
  /\ pLastOp = "new"
  /\ \E str \in FieldInputTexts :
       \E r \in {fieldFromString[pUnit][str]} :
          /\ pValues' = Assigned(pValues, r)
          /\ pErr' = r.err
          /\ pInput' = [kind |-> "text", v |-> str]
  /\ pLastOp' = "fromString"
  /\ pText' = <<>>
  /\ UNCHANGED <<pUnit, pOptions, seekerVars, cronVars>>

\* the first part.fromArray(arr) of a Part, for an arr of FieldArrays
FieldFromArray ==
  /\ pLastOp = "new"
  /\ \E arr \in FieldArrays :
       \E r \in {fieldFromArray[pUnit][arr]} :
          /\ pValues' = Assigned(pValues, r)
          /\ pErr' = r.err
          /\ pInput' = [kind |-> "array", v |-> arr]
  /\ pLastOp' = "fromArray"
  /\ pText' = <<>>
  /\ UNCHANGED <<pUnit, pOptions, seekerVars, cronVars>>

FieldNext == FieldFromString \/ FieldFromArray \/ PartToString

FieldSpec == FieldInit /\ [][FieldNext]_vars

-----------------------------------------------------------------------------
(* Two seekers made by cron.schedule(now) from one Cron and one now object,  *)
(* called in any order. The date objects live in heap, so that two seekers   *)
(* that hold the same mutable object see each other's changes; alone[i] is   *)
(* seeker i run by itself on the same calls.                                 *)

PairSchedules ==
  { <<Full(1), Full(2), Full(3), Full(4), Full(5)>>,
    << <<0>>, <<0>>, <<1>>, <<1>>, Full(5)>>,
    << <<0, 30>>, <<12>>, Full(3), Full(4), <<0>>>>,
    << <<0>>, <<0>>, <<31>>, <<2>>, Full(5)>> }

PairRefInstants ==
  { Instant(2024, 2, 28, 23, 59, 30, 0), Instant(2024, 3, 10, 12, 30, 0, 0),
    Instant(2016, 3, 1, 0, 0, 0, 0) }

\* a moment(x) that hands back the object it was given
momentSame(id, fresh) == id

\* moment(x), DateTime.fromJSDate(x): the id of the object the call returns,
\* which is a new object (fresh), never the argument (id)
momentClone(id, fresh) == fresh

\* the constructor's date.add(1, "minute") on object id when its seconds are > 0
Constructed(h, id) ==
  IF h[id].s > 0 THEN [h EXCEPT ![id] = Step(h[id], FALSE, "minute")] ELSE h

\* the heap after new Seeker(cron, now) twice, with now the object 1: moment
\* adds the minute to the object it holds, luxon's plus() makes a new value
PairHeap(im, ref) ==
  IF im = "ts"
  THEN Constructed(Constructed(<<ref, ref, ref>>, momentClone(1, 2)), momentClone(1, 3))
  ELSE <<ref, Constructed(<<ref>>, 1)[1], Constructed(<<ref>>, 1)[1]>>

PairInit ==
  /\ impl \in Impls
  /\ parts \in PairSchedules
  /\ \E ref \in PairRefInstants :
       /\ reference = ref
       /\ heap = PairHeap(impl, ref)
       /\ alone = [i \in 1..2 |->
                     [now |-> Constructed(<<ref>>, 1)[1], date |-> Constructed(<<ref>>, 1)[1],
                      aliased |-> (impl = "ts"), pristine |-> TRUE]]
  /\ pair = [i \in 1..2 |->
               [now  |-> IF impl = "ts" THEN momentClone(1, i + 1) ELSE i + 1,
                date |-> IF impl = "ts" THEN momentClone(1, i + 1) ELSE i + 1,
                pristine |-> TRUE]]
  /\ pairLast = NoPairCall
  /\ now = NoDate /\ date = NoDate /\ anchor0 = NoDate /\ startDate = NoDate
  /\ aliased = FALSE
  /\ pristine = TRUE
  /\ lastOp = Null /\ prevOp = Null
  /\ lastStatus = "none"
  /\ lastResult = NoDate
  /\ prevResult = NoDate
  /\ calls = 0
  /\ NoPart
  /\ NoCron

\* a seeker by itself after a search r that started at d0
AloneAfter(im, st, d0, r) ==
  [now      |-> IF st.aliased THEN DateAfter(im, st.date, d0, r) ELSE st.now,
   date     |-> DateAfter(im, st.date, d0, r),
   aliased  |-> st.aliased,
   pristine |-> FALSE]

\* the heap and the seeker after seeker i's search r that started at d0: moment
\* has moved the seeker's date object itself, luxon stores a new value
HeapAfter(im, h, sk, d0, r) ==
  IF im = "ts" THEN [h EXCEPT ![sk.date] = DateAfter(im, h[sk.date], d0, r)]
  ELSE Append(h, DateAfter(im, h[sk.date], d0, r))

SeekerAfter(im, h, sk) ==
  [now |-> sk.now, date |-> IF im = "ts" THEN sk.date ELSE Len(h) + 1, pristine |-> FALSE]

PairRecord(i, op, r, ra) ==
  pairLast' = [who |-> i, op |-> op, status |-> r.status, result |-> r.result,
               aloneStatus |-> ra.status, aloneResult |-> ra.result,
               n |-> pairLast.n + 1]

PairCanCall == pairLast.n < MaxPairCalls /\ pairLast.status # "hang"

\* seeker i: next()
PairNext(i) ==
  /\ PairCanCall
  /\ IF impl = "luxon2" /\ ~pair[i].pristine
     THEN \* date = date.plus(...): date is not declared (strict mode)
          /\ PairRecord(i, "next", [status |-> "ReferenceError", result |-> NoDate],
                        [status |-> "ReferenceError", result |-> NoDate])
          /\ UNCHANGED <<heap, pair, alone>>
     ELSE \E d0 \in {NextStart(pair[i].pristine, heap[pair[i].date])} :
          \E da \in {NextStart(alone[i].pristine, alone[i].date)} :
          \E r \in {findDate(parts, d0, FALSE, impl)} :
          \E ra \in {IF da = d0 THEN r ELSE findDate(parts, da, FALSE, impl)} :
             /\ PairRecord(i, "next", r, ra)
             /\ heap' = HeapAfter(impl, heap, pair[i], d0, r)
             /\ pair' = [pair EXCEPT ![i] = SeekerAfter(impl, heap, pair[i])]
             /\ alone' = [alone EXCEPT ![i] = AloneAfter(impl, alone[i], da, ra)]
  /\ UNCHANGED <<impl, parts, now, date, aliased, pristine, lastOp, lastStatus, lastResult,
                 prevResult, startDate, anchor0, reference, prevOp, calls, partVars, cronVars>>

\* seeker i: prev()
PairPrev(i) ==
  /\ PairCanCall
  /\ \E d0 \in {heap[pair[i].date]} :
     \E r \in {findDate(parts, d0, TRUE, impl)} :
     \E ra \in {IF alone[i].date = d0 THEN r ELSE findDate(parts, alone[i].date, TRUE, impl)} :
        /\ PairRecord(i, "prev", r, ra)
        /\ heap' = HeapAfter(impl, heap, pair[i], d0, r)
        /\ pair' = [pair EXCEPT ![i] = SeekerAfter(impl, heap, pair[i])]
        /\ alone' = [alone EXCEPT ![i] = AloneAfter(impl, alone[i], alone[i].date, ra)]
  /\ UNCHANGED <<impl, parts, now, date, aliased, pristine, lastOp, lastStatus, lastResult,
                 prevResult, startDate, anchor0, reference, prevOp, calls, partVars, cronVars>>

\* seeker i: reset(); this.date becomes a new object made from this.now
PairReset(i) ==
  /\ PairCanCall
  /\ PairRecord(i, "reset", [status |-> "none", result |-> NoDate],
                [status |-> "none", result |-> NoDate])
  /\ heap' = Append(heap, ResetDate(impl, heap[pair[i].now], heap[pair[i].date]))
  /\ pair' = [pair EXCEPT ![i] = [now |-> pair[i].now,
                                  date |-> momentClone(pair[i].now, Len(heap) + 1),
                                  pristine |-> TRUE]]
  /\ alone' = [alone EXCEPT ![i] =
                 [now |-> alone[i].now,
                  date |-> ResetDate(impl, alone[i].now, alone[i].date),
                  aliased |-> FALSE, pristine |-> TRUE]]
  /\ UNCHANGED <<impl, parts, now, date, aliased, pristine, lastOp, lastStatus, lastResult,
                 prevResult, startDate, anchor0, reference, prevOp, calls, partVars, cronVars>>

PairStep == \E i \in 1..2 : PairNext(i) \/ PairPrev(i) \/ PairReset(i)

PairSpec == PairInit /\ [][PairStep]_vars


-----------------------------------------------------------------------------
(* What the schedule means, stated on the calendar alone (weekday 0 = Sunday) *)

Returned == lastOp \in {"next", "prev"} /\ lastStatus = "ok"

DayMatches(ps, y, mo, d) ==
  /\ Has(ps[4], mo)
  /\ Has(ps[3], d)
  /\ d <= DaysInMonth(y, mo)
  /\ Has(ps[5], (DayNumber(y, mo, d) + 6) % 7)

Matches(ps, dt) ==
  /\ DayMatches(ps, dt.y, dt.mo, dt.d)
  /\ Has(ps[2], dt.h)
  /\ Has(ps[1], dt.mi)

\* no minute of [lo, hi] (two instants, compared by their minute) satisfies the schedule
NoMatchBetween(ps, lo, hi) ==
  \A y \in lo.y .. hi.y : \A i4 \in DOMAIN ps[4] : \A i3 \in DOMAIN ps[3] :
    LET mo == ps[4][i4]
        d  == ps[3][i3]
    IN (/\ DayMatches(ps, y, mo, d)
        /\ DayNumber(y, mo, d) >= DayNumber(lo.y, lo.mo, lo.d)
        /\ DayNumber(y, mo, d) <= DayNumber(hi.y, hi.mo, hi.d))
       => \A i2 \in DOMAIN ps[2] : \A i1 \in DOMAIN ps[1] :
            LET k == (DayNumber(y, mo, d) * 24 + ps[2][i2]) * 60 + ps[1][i1]
            IN k < MinuteKey(lo) \/ k > MinuteKey(hi)

\* no (day-of-month, month) pair of the schedule is a date of any year
NoCalendarDate(ps) ==
  \A i4 \in DOMAIN ps[4] : \A i3 \in DOMAIN ps[3] : ps[3][i3] > DaysInMonth(2000, ps[4][i4])

-----------------------------------------------------------------------------
(* C1: every instant next() or prev() returns has its minute, hour,          *)
(* day-of-month, month and weekday in the five value-sets, and its seconds   *)
(* and milliseconds are zero.                                                *)
C1_ResultInAllSets ==
  Returned => /\ Matches(parts, lastResult)
              /\ lastResult.s = 0
              /\ lastResult.ms = 0

\* a search that had to move the cursor over days and came back with an instant
C1_Witness ==
  /\ Returned
  /\ lastOp = "prev"
  /\ ~Has(parts[5], 0)
  /\ DayNumber(lastResult.y, lastResult.mo, lastResult.d)
       < DayNumber(startDate.y, startDate.mo, startDate.d)

(* C2: a search that returns gives the earliest satisfying minute at or      *)
(* after the cursor's minute (next), or the latest one at or before the      *)
(* cursor minus one minute (prev): no satisfying minute is skipped.          *)
C2_NoMinuteSkipped ==
  Returned =>
    /\ Matches(parts, lastResult)
    /\ lastOp = "next" =>
         /\ MinuteKey(lastResult) >= MinuteKey(startDate)
         /\ NoMatchBetween(parts, startDate, MinusMinute(lastResult))
    /\ lastOp = "prev" =>
         /\ MinuteKey(lastResult) <= MinuteKey(startDate) - 1
         /\ NoMatchBetween(parts, PlusMinute(lastResult), MinusMinute(startDate))

(* C3: a next() that follows a next() returns a later instant than it did    *)
(* (or raises the Unschedulable error).                                      *)
C3_NextIncreasing ==
  [][(lastOp = "next" /\ lastStatus = "ok" /\ lastOp' = "next" /\ calls' = calls + 1)
       => /\ lastStatus' \in {"ok", "unschedulable"}
          /\ lastStatus' = "ok" => Before(lastResult, lastResult')]_vars

(* C4: a prev() that follows a prev() returns an earlier instant than it did *)
(* (or raises the Unschedulable error).                                      *)
C4_PrevDecreasing ==
  [][(lastOp = "prev" /\ lastStatus = "ok" /\ lastOp' = "prev" /\ calls' = calls + 1)
       => /\ lastStatus' \in {"ok", "unschedulable"}
          /\ lastStatus' = "ok" => Before(lastResult', lastResult)]_vars

(* C5: next(), prev() and reset() never change the anchor; reset() puts the  *)
(* cursor back on the anchor fixed at construction and sets pristine; the    *)
(* next() after a reset() returns what the first next() after construction   *)
(* returns.                                                                  *)
C5_ResetRestoresAnchor ==
  /\ now = anchor0
  /\ lastOp = "reset" => (date = anchor0 /\ pristine)
  /\ (lastOp = "next" /\ prevOp = "reset") =>
       /\ lastStatus = findDate(parts, anchor0, FALSE, impl).status
       /\ lastResult = findDate(parts, anchor0, FALSE, impl).result

C7_SearchTerminates ==
  lastOp \in {"next", "prev"} =>
    /\ lastStatus \in {"ok", "unschedulable"}
    /\ NoCalendarDate(parts) => lastStatus = "unschedulable"

-----------------------------------------------------------------------------
(* Part and Cron: parsing and formatting *)

ParseOps == {"fromString", "fromArray"}

\* values is non-empty, strictly ascending (so free of duplicates) and within the unit
ValidValues(unit, values) ==
  /\ Len(values) > 0
  /\ \A i \in 2..Len(values) : values[i - 1] < values[i]
  /\ \A i \in 1..Len(values) : unit.min <= values[i] /\ values[i] <= unit.max

\* C8: after every successful Part.fromString or Part.fromArray the stored values
\* are non-empty, strictly ascending, free of duplicates, and every element lies
\* in [unit.min, unit.max].
C8_ValuesValid ==
  (pLastOp \in ParseOps /\ pErr = "none") =>
    pValues # Undefined /\ ValidValues(units[pUnit], pValues)

\* a parse has stored several values in a weekday Part, Sunday among them
C8_Witness ==
  /\ pLastOp \in ParseOps /\ pErr = "none"
  /\ pUnit = 5
  /\ Len(pValues) >= 3 /\ pValues[1] = 0

\* the text toString() returned parses back to the values it was made from, and is
\* what toString() makes of the parsed values again
PartRoundTrip ==
  /\ fromString(units[pUnit], pText) = Ok(pValues)
  /\ toString(units[pUnit], pOptions, fromString(units[pUnit], pText).values) = pText

CronRoundTrip ==
  /\ cronFromString(cText) = Ok(parts)
  /\ cronToString(cOptions, cronFromString(cText).values) = cText

\* C9 as stated: for every valid value-set of every unit, parsing the text produced
\* by toString() yields the same values again, and a text in the form toString()
\* produces is reproduced exactly by fromString followed by toString; for one
\* field and for a whole schedule, whatever the options.
C9_RoundTripAnyOptions ==
  /\ (pLastOp = "toString" /\ pErr = "none") => PartRoundTrip
  /\ (cLastOp = "toString" /\ cErr = "none") => CronRoundTrip

\* C9, amended: the round trip holds when outputHashes is not set.
C9_RoundTripWithoutHashes ==
  /\ (pLastOp = "toString" /\ pErr = "none" /\ ~pOptions.outputHashes) => PartRoundTrip
  /\ (cLastOp = "toString" /\ cErr = "none" /\ ~cOptions.outputHashes) => CronRoundTrip

\* toString() has written a weekday interval with names
C9_Witness ==
  /\ pLastOp = "toString" /\ pErr = "none"
  /\ ~pOptions.outputHashes /\ pOptions.outputWeekdayNames
  /\ pUnit = 5
  /\ pValues = <<1, 3, 5>>
  /\ pText = <<"M", "O", "N", "-", "F", "R", "I", "/", "2">>

\* C10: when Part.fromString or Part.fromArray throws, the Part's values are what
\* they were before the call; when Cron.fromString or Cron.fromArray throws, the
\* Cron's parts are still the previously parsed schedule (or null).
C10_NoPartialState ==
  [][ /\ (pLastOp' \in ParseOps /\ pErr' # "none") => pValues' = pValues
      /\ (cLastOp' \in ParseOps /\ cErr' # "none") => parts' = parts ]_vars

\* a Cron that holds a schedule has thrown on a field of a later parse
C10_Witness ==
  /\ cLastOp \in ParseOps
  /\ cErr \in {"out of range", "Empty interval value"}
  /\ parts # Null

-----------------------------------------------------------------------------
(* Claims about one parse call and its argument (FieldSpec) *)

\* a token that is a numeral: one or more digits
IsNumeral(tok) == Len(tok) > 0 /\ \A i \in 1..Len(tok) : IsDigit(tok[i])

\* the text reads "a-b/s" with three numerals
IsIntervalText(str) ==
  /\ Len(Split(str, "/")) = 2
  /\ Len(Split(Split(str, "/")[1], "-")) = 2
  /\ IsNumeral(Split(Split(str, "/")[1], "-")[1])
  /\ IsNumeral(Split(Split(str, "/")[1], "-")[2])
  /\ IsNumeral(Split(str, "/")[2])

IntervalFrom(str) == DigitsValue(Split(Split(str, "/")[1], "-")[1])
IntervalTo(str) == DigitsValue(Split(Split(str, "/")[1], "-")[2])
IntervalStep(str) == DigitsValue(Split(str, "/")[2])

\* the largest numeral a unit accepts: the weekday field also takes 7
MaxNumeral(unit) == IF unit.name = "weekday" THEN 7 ELSE unit.max

\* the value a numeral stands for: in the weekday field 7 stands for 0
Stands(unit, v) == IF unit.name = "weekday" /\ v = 7 THEN 0 ELSE v

\* the integers of [a, b] congruent to a modulo s, as values of the unit
CongruentIn(unit, a, b, s) == {Stands(unit, v) : v \in {w \in a..b : w % s = a % s}}

\* the values a Part holds, as a set
ValueSet(values) == {values[i] : i \in 1..Len(values)}

\* C11: Part.fromString on "a-b/s", with a <= b inside the numerals the unit
\* accepts and s >= 1, returns exactly the integers of [a, b] that are
\* congruent to a modulo s.
C11_IntervalIsCongruenceClass ==
  (/\ pLastOp = "fromString"
   /\ IsIntervalText(pInput.v)
   /\ units[pUnit].min <= IntervalFrom(pInput.v)
   /\ IntervalFrom(pInput.v) <= IntervalTo(pInput.v)
   /\ IntervalTo(pInput.v) <= MaxNumeral(units[pUnit])
   /\ IntervalStep(pInput.v) >= 1)
  => /\ pErr = "none"
     /\ ValueSet(pValues) =
          CongruentIn(units[pUnit], IntervalFrom(pInput.v), IntervalTo(pInput.v),
                      IntervalStep(pInput.v))


\* the array with 0 in the place of every 7
ZeroForSeven(arr) == [i \in 1..Len(arr) |-> IF arr[i] = 7 THEN 0 ELSE arr[i]]

\* a list item written without 7: "7" is "0", and "a-7" (a a numeral up to 6)
\* is "0,a-6"
ItemWithoutSeven(seg) ==
  IF seg = <<"7">> \/ seg = <<"7", "-", "7">> THEN <<"0">>
  ELSE IF /\ Len(Split(seg, "-")) = 2
          /\ Split(seg, "-")[2] = <<"7">>
          /\ IsNumeral(Split(seg, "-")[1])
          /\ DigitsValue(Split(seg, "-")[1]) <= 6
       THEN <<"0", ",">> \o Split(seg, "-")[1] \o <<"-", "6">>
       ELSE seg

\* the field text written with 0 for Sunday: every item of the range part
\* rewritten by ItemWithoutSeven, the step part kept
TextWithoutSeven(str) ==
  LET sp    == Split(str, "/")
      items == Split(sp[1], ",")
      range == Join([i \in 1..Len(items) |-> ItemWithoutSeven(items[i])], ",")
  IN Join([i \in 1..Len(sp) |-> IF i = 1 THEN range ELSE sp[i]], "/")

\* what the last parse call answered
Outcome == IF pErr = "none" THEN Ok(pValues) ELSE Throw(pErr)

\* the text holds the numeral 7 as a list item and has no step
HasItemSeven(str) ==
  /\ Len(Split(str, "/")) = 1
  /\ \E i \in 1..Len(Split(str, ",")) : Split(str, ",")[i] = <<"7">>

NoNames == DefaultOptions

\* C12: in the weekday field 7 is another name of 0: an array with 7 parses like
\* the array with 0 in its place, a text with 7 like the text written with 0
\* for Sunday ("5-7" like "0,5-6"), so that "1-7" is the full set and prints
\* "*" and "5-7" is {0, 5, 6} and prints "0,5-6"; in the other units 7 stays
\* the value 7.
C12_SevenIsSunday ==
  /\ (pUnit = 5 /\ pLastOp = "fromArray")
        => Outcome = fromArray(units[5], ZeroForSeven(pInput.v))
  /\ (pUnit = 5 /\ pLastOp = "fromString")
        => Outcome = fromString(units[5], TextWithoutSeven(pInput.v))
  /\ (pUnit = 5 /\ pInput.kind = "text" /\ pInput.v = <<"1", "-", "7">>)
        => /\ pValues = Range(0, 6)
           /\ (pLastOp = "toString" /\ ~pOptions.outputHashes) => pText = <<"*">>
  /\ (pUnit = 5 /\ pInput.kind = "text" /\ pInput.v = <<"5", "-", "7">>)
        => /\ pValues = <<0, 5, 6>>
           /\ (pLastOp = "toString" /\ pOptions = NoNames)
                 => pText = <<"0", ",", "5", "-", "6">>
  /\ (pUnit \in 1..4 /\ pInput.kind = "array" /\ pErr = "none"
        /\ \E i \in 1..Len(pInput.v) : pInput.v[i] = 7)
        => 7 \in ValueSet(pValues)
  /\ (pUnit \in 1..4 /\ pInput.kind = "text" /\ pErr = "none" /\ HasItemSeven(pInput.v))
        => 7 \in ValueSet(pValues)

\* the weekday text "5-7" has been parsed and printed
C12_Witness ==
  /\ pUnit = 5
  /\ pInput.kind = "text"
  /\ pInput.v = <<"5", "-", "7">>
  /\ pLastOp = "toString"
  /\ pValues = <<0, 5, 6>>
  /\ pText = <<"0", ",", "5", "-", "6">>


\* the numeral of a token that is one of the unit's names in any letter case;
\* any other token is left as it is
TokenAsNumeral(unit, tok) ==
  IF \E k \in 1..Len(unit.alt) : unit.alt[k] = ToUpperCase(tok)
  THEN NumberToString(unit.min - 1 + CHOOSE k \in 1..Len(unit.alt) : unit.alt[k] = ToUpperCase(tok))
  ELSE tok

\* a list item with each of its tokens written as a numeral
ItemAsNumerals(unit, seg) ==
  Join([i \in 1..Len(Split(seg, "-")) |-> TokenAsNumeral(unit, Split(seg, "-")[i])], "-")

\* the field text with every name token of its range part written as a numeral
TextAsNumerals(unit, str) ==
  LET sp    == Split(str, "/")
      items == Split(sp[1], ",")
      range == Join([i \in 1..Len(items) |-> ItemAsNumerals(unit, items[i])], ",")
  IN Join([i \in 1..Len(sp) |-> IF i = 1 THEN range ELSE sp[i]], "/")

\* the text holds a token that is a name of the unit
HasName(unit, str) == TextAsNumerals(unit, str) # str

\* C13: in a unit with names, a text parses like the text in which every name
\* token of the range part, in any letter case and however often it occurs, is
\* written as the numeral unit.min + index ("mon-fri" like "1-5", "JAN-DEC" like
\* "1-12", "MON,WED,MON" like "1,3,1").
C13_NamesAreNumerals ==
  (pLastOp = "fromString" /\ pUnit \in {4, 5})
    => Outcome = fromString(units[pUnit], TextAsNumerals(units[pUnit], pInput.v))


\* the tokens of a list item are not one numeral or two numerals around one "-"
\* (names count as the numerals they stand for)
MalformedItem(unit, seg) ==
  \/ Len(Split(seg, "-")) > 2
  \/ \E i \in 1..Len(Split(seg, "-")) : ~IsNumeral(TokenAsNumeral(unit, Split(seg, "-")[i]))

\* the field text is malformed: more than one "/", or a range part other than
\* "*" with a malformed list item
Malformed(unit, str) ==
  \/ Len(Split(str, "/")) > 2
  \/ /\ Split(str, "/")[1] # <<"*">>
     /\ \E i \in 1..Len(Split(Split(str, "/")[1], ",")) :
          MalformedItem(unit, Split(Split(str, "/")[1], ",")[i])

\* C14: Part.fromString throws, and assigns no values, on every malformed field
\* text: more than one "/", a list item with more than one "-", or a list item
\* or range endpoint that is not an integer ("1,-5", "1-", "1,a-b").
C14_MalformedRejected ==
  (pLastOp = "fromString" /\ Malformed(units[pUnit], pInput.v))
    => (pErr # "none" /\ pValues = Undefined)


-----------------------------------------------------------------------------
(* Claims about the seeker, continued (Spec) *)

\* the schedule restricts both the day of the month and the weekday
BothRestricted(ps) == Len(ps[3]) < 31 /\ Len(ps[5]) < 7

\* the day is in the month set and in the day-of-month set OR in the weekday set
EitherDayMatches(ps, y, mo, d) ==
  /\ Has(ps[4], mo)
  /\ d <= DaysInMonth(y, mo)
  /\ Has(ps[3], d) \/ Has(ps[5], (DayNumber(y, mo, d) + 6) % 7)

\* some minute of [lo, hi] has its hour and minute in their sets on a day that
\* EitherDayMatches but that is not in both day sets
EitherMatchBetween(ps, lo, hi) ==
  \E y \in lo.y .. hi.y : \E i4 \in DOMAIN ps[4] : \E d \in 1..31 :
    /\ EitherDayMatches(ps, y, ps[4][i4], d)
    /\ ~DayMatches(ps, y, ps[4][i4], d)
    /\ DayNumber(y, ps[4][i4], d) >= DayNumber(lo.y, lo.mo, lo.d)
    /\ DayNumber(y, ps[4][i4], d) <= DayNumber(hi.y, hi.mo, hi.d)
    /\ \E i2 \in DOMAIN ps[2] : \E i1 \in DOMAIN ps[1] :
         LET k == (DayNumber(y, ps[4][i4], d) * 24 + ps[2][i2]) * 60 + ps[1][i1]
         IN k >= MinuteKey(lo) /\ k <= MinuteKey(hi)

\* C15: when the schedule restricts both the day of the month and the weekday,
\* a day satisfies it when its day of the month OR its weekday is in the set:
\* next() passes over no minute of such a day.
C15_EitherDaySuffices ==
  (Returned /\ lastOp = "next" /\ BothRestricted(parts))
    => ~EitherMatchBetween(parts, startDate, MinusMinute(lastResult))

\* C15, amended: when both are restricted they are combined with AND: the day
\* of every returned instant is in the day-of-month set and in the weekday set.
C15_BothDaysRequired ==
  (Returned /\ BothRestricted(parts))
    => /\ Has(parts[3], lastResult.d)
       /\ Has(parts[5], (DayNumber(lastResult.y, lastResult.mo, lastResult.d) + 6) % 7)

\* next() has passed over a day that is in one of the two day sets only
C15_Witness ==
  /\ Returned /\ lastOp = "next" /\ BothRestricted(parts)
  /\ EitherMatchBetween(parts, startDate, MinusMinute(lastResult))


\* C16: the first next() after construction returns an instant that is not
\* earlier than the reference instant the constructor was given, and that is
\* later than it when the reference has seconds > 0.
C16_FirstNextNotInPast ==
  (lastOp = "next" /\ prevOp = "new" /\ lastStatus = "ok")
    => /\ ~Before(lastResult, reference)
       /\ reference.s > 0 => Before(reference, lastResult)


\* C17: when prev() has returned an instant and next() is called immediately
\* after it and returns one, the instant of prev() is strictly earlier than the
\* instant of next(); the two are never the same instant.
C17_PrevBeforeFollowingNext ==
  [][(/\ lastOp = "prev" /\ lastStatus = "ok"
      /\ lastOp' = "next" /\ calls' = calls + 1 /\ lastStatus' = "ok")
       => Before(lastResult, lastResult')]_vars

\* a next() called right after a prev() has returned the minute that follows
\* the one prev() returned
C17_Witness ==
  /\ lastOp = "next" /\ prevOp = "prev" /\ lastStatus = "ok"
  /\ impl = "ts"
  /\ parts[1] = Range(0, 59) /\ parts[2] = Range(0, 23)
  /\ MinuteKey(lastResult) = MinuteKey(startDate)
  /\ MinuteKey(startDate) < MinuteKey(anchor0)


-----------------------------------------------------------------------------
(* Claim about two seekers over one Cron (PairSpec) *)

\* C18: two seekers made from the same Cron share no state that a call changes:
\* in every interleaving of next(), prev() and reset() on the two, each call
\* returns what the same seeker returns when it is called alone, and leaves
\* each seeker's anchor, cursor and pristine flag as they are when it runs alone.
C18_SeekersIndependent ==
  /\ pairLast.status = pairLast.aloneStatus
  /\ pairLast.result = pairLast.aloneResult
  /\ \A i \in DOMAIN pair :
       /\ heap[pair[i].date] = alone[i].date
       /\ heap[pair[i].now] = alone[i].now
       /\ pair[i].pristine = alone[i].pristine

\* the second seeker has returned an instant after the first one had moved on
\* to another minute
C18_Witness ==
  /\ impl = "ts"
  /\ pairLast.who = 2 /\ pairLast.op = "next" /\ pairLast.status = "ok"
  /\ pairLast.n = 2
  /\ ~pair[1].pristine
  /\ MinuteKey(heap[pair[1].date]) # MinuteKey(heap[pair[2].date])


-----------------------------------------------------------------------------
(* Claims about Part.toString (FieldSpec) *)

\* the options with outputHashes switched off
WithoutHashes(options) == [options EXCEPT !.outputHashes = FALSE]

\* the text toString() gives for the Part's values when outputHashes is off
PlainText == toString(units[pUnit], WithoutHashes(pOptions), pValues)

\* toString() has returned a text on a Part that has outputHashes set
PrintedWithHashes == pLastOp = "toString" /\ pErr = "none" /\ pOptions.outputHashes

\* the values are every integer of the unit
IsFullSet(unit, values) == ValueSet(values) = unit.min .. unit.max

\* the values are every step-th integer of the unit from unit.min on, step > 1
IsFullSpan(unit, values) ==
  /\ Len(values) > 2
  /\ values[2] - values[1] > 1
  /\ ValueSet(values) = {v \in unit.min .. unit.max : (v - unit.min) % (values[2] - values[1]) = 0}

\* C19: with outputHashes set, toString() writes "H" for a full set and
\* "H/step" for a full-span interval, and writes every other value-set as it
\* does without the option (a non-full interval as "min-max/step").
C19_HashOnlyForFull ==
  PrintedWithHashes =>
    pText = IF IsFullSet(units[pUnit], pValues) THEN <<"H">>
            ELSE IF IsFullSpan(units[pUnit], pValues)
                 THEN <<"H", "/">> \o NumberToString(pValues[2] - pValues[1])
                 ELSE PlainText

\* C19, amended: with outputHashes set, toString() writes "H" for a full set,
\* "H/step" for a full-span interval, "H(min-max)/step" for any other interval,
\* and every value-set that is not an interval as it does without the option.
C19_HashForms ==
  PrintedWithHashes =>
    pText = IF IsFullSet(units[pUnit], pValues) THEN <<"H">>
            ELSE IF IsFullSpan(units[pUnit], pValues)
                 THEN <<"H", "/">> \o NumberToString(pValues[2] - pValues[1])
                 ELSE IF Len(Split(PlainText, "/")) = 2
                      THEN <<"H", "(">> \o Split(PlainText, "/")[1] \o <<")", "/">>
                             \o Split(PlainText, "/")[2]
                      ELSE PlainText

\* an interval that is not full-span has been written with outputHashes set
C19_Witness ==
  /\ PrintedWithHashes
  /\ pUnit = 1
  /\ pValues = <<1, 3, 5>>
  /\ pText = <<"H", "(", "1", "-", "5", ")", "/", "2">>


\* toString() has returned a text
Printed == pLastOp = "toString" /\ pErr = "none"

\* C20: toString() writes "*" exactly when the values are every integer of
\* [unit.min, unit.max], however they were written ("*", a full range, a list
\* in any order); parsing "*" gives max - min + 1 values.
C20_StarIffFull ==
  /\ Printed => (pText = <<"*">> <=> IsFullSet(units[pUnit], pValues))
  /\ (pLastOp = "fromString" /\ pInput.v = <<"*">>)
       => /\ pErr = "none"
          /\ Len(pValues) = units[pUnit].max - units[pUnit].min + 1

\* C20, amended: toString() writes the full-set mark, "*" and with outputHashes
\* "H", exactly when the values are every integer of [unit.min, unit.max],
\* however they were written; parsing "*" gives max - min + 1 values.
C20_FullMarkIffFull ==
  /\ Printed => (pText = (IF pOptions.outputHashes THEN <<"H">> ELSE <<"*">>)
                   <=> IsFullSet(units[pUnit], pValues))
  /\ Printed => (pText = <<"*">> => ~pOptions.outputHashes)
  /\ (pLastOp = "fromString" /\ pInput.v = <<"*">>)
       => /\ pErr = "none"
          /\ Len(pValues) = units[pUnit].max - units[pUnit].min + 1

\* a full weekday set given as a list out of order has been written as "*"
C20_Witness ==
  /\ Printed
  /\ pUnit = 5
  /\ pInput.kind = "text"
  /\ pInput.v = <<"1", ",", "0", ",", "3", ",", "2", ",", "5", ",", "4", ",", "6">>
  /\ pText = <<"*">>


-----------------------------------------------------------------------------
(* C21: the number of passes of a search *)

\* the last call was a search that came to an end
SearchEnded == lastOp \in {"next", "prev"} /\ lastStatus \in {"ok", "unschedulable"}

\* the outcome of the search of findDate when it is allowed n passes
SearchAllowed(n, ps, dt, reverse, im) ==
  findDateLoop(ps, pass(ps, IF reverse THEN Step(dt, TRUE, "minute") ELSE dt, reverse, im),
               reverse, im, n)

\* the passes the last search ran
LastPasses == findDate(parts, startDate, lastOp = "prev", impl).passes

\* C21: a search runs up to 24 passes: it returns the instant when one of its first
\* 24 passes succeeds, and raises Unschedulable only after 24 passes have failed
C21_TwentyFourPasses ==
  SearchEnded =>
    /\ lastStatus = SearchAllowed(24, parts, startDate, lastOp = "prev", impl).status
    /\ lastStatus = "unschedulable" => LastPasses = 24


-----------------------------------------------------------------------------
(* C22: the retry bound and the schedules it gives up on *)

\* C22: Unschedulable is raised only for a schedule that no calendar instant
\* satisfies: a schedule with a satisfying instant always gets it returned
C22_UnschedulableOnlyWithoutInstant ==
  (SearchEnded /\ lastStatus = "unschedulable") => NoCalendarDate(parts)


-----------------------------------------------------------------------------
(* C23: the numbering of weekdays *)

\* dt is a Sunday of the calendar
IsSunday(dt) == (DayNumber(dt.y, dt.mo, dt.d) + 6) % 7 = 0

\* C23: the seeker numbers weekdays as the weekday set does (0 = Sunday): a returned
\* Sunday has 0 in the weekday set, and with every weekday in the set no minute that
\* satisfies the four other sets is passed over, on a Sunday or on any other day
C23_SundayIsZero ==
  Returned =>
    /\ IsSunday(lastResult) => Has(parts[5], 0)
    /\ (Len(parts[5]) = 7 /\ lastOp = "next")
         => NoMatchBetween(parts, startDate, MinusMinute(lastResult))
    /\ (Len(parts[5]) = 7 /\ lastOp = "prev")
         => NoMatchBetween(parts, PlusMinute(lastResult), MinusMinute(startDate))


-----------------------------------------------------------------------------
(* C24: the options a Cron is given *)

\* a Seeker has been scheduled from the Cron
Scheduled == impl # Null

\* C24: the InternalOptions of a Cron carries the three output flags and the
\* timezone of the Options record it was built from, and a Seeker scheduled from the
\* Cron starts from the reference instant as read in that timezone
C24_OptionsReachConsumer ==
  /\ cOptions.outputHashes = cGiven.outputHashes
  /\ cOptions.outputWeekdayNames = cGiven.outputWeekdayNames
  /\ cOptions.outputMonthNames = cGiven.outputMonthNames
  /\ cOptions.timezone = cGiven.timezone
  /\ (Scheduled /\ cGiven.timezone # Null)
       => now = (IF InZone(reference, cGiven.timezone).s > 0
                 THEN Step(InZone(reference, cGiven.timezone), FALSE, "minute")
                 ELSE InZone(reference, cGiven.timezone))


-----------------------------------------------------------------------------
(* C25: a step after a list of items *)

\* the text holds a '/'
HasSlash(str) == \E i \in 1..Len(str) : str[i] = "/"

\* the text reads "list/s" with s a numeral of value 1 or more
IsSteppedText(str) ==
  /\ HasSlash(str)
  /\ \E sp \in {Split(str, "/")} :
       Len(sp) = 2 /\ IsNumeral(sp[2]) /\ DigitsValue(sp[2]) >= 1

\* the list a stepped text puts before its step, and the step
ListOf(str) == Split(str, "/")[1]
StepOf(str) == DigitsValue(Split(str, "/")[2])

\* the values of vs congruent to the smallest of them modulo s (vs ascending)
CongruentToSmallest(vs, s) == SelectSeq(vs, LAMBDA v : v % s = vs[1] % s)

\* C25: Part.fromString on "T1,T2,.../s", whose list alone parses to the sorted union
\* U of its items, returns exactly the values of U congruent to the smallest value of
\* U modulo s, and that is never empty
C25_StepOverUnion ==
  (pLastOp = "fromString" /\ IsSteppedText(pInput.v))
  => \E union \in {fromString(units[pUnit], ListOf(pInput.v))} :
       union.err = "none"
       => /\ pErr = "none"
          /\ pValues = CongruentToSmallest(union.values, StepOf(pInput.v))
          /\ Len(pValues) > 0
          /\ pValues[1] = union.values[1]

\* "1,4-9/3" as minutes is 1, 4, 7: the step runs over both items, from the 1
C25_Witness ==
  /\ pLastOp = "fromString"
  /\ units[pUnit].name = "minute"
  /\ pInput.v = <<"1", ",", "4", "-", "9", "/", "3">>
  /\ pErr = "none"
  /\ pValues = <<1, 4, 7>>


-----------------------------------------------------------------------------
(* C26: toString() of a set that is neither full nor a stepped interval *)

\* three values or more, equally spaced by more than 1
IsSteppedSet(values) ==
  /\ Len(values) > 2
  /\ values[2] - values[1] > 1
  /\ \A i \in 1..(Len(values) - 1) : values[i + 1] - values[i] = values[2] - values[1]

\* the values that begin a maximal run of consecutive integers of V
RunStarts(V) == {v \in V : v - 1 \notin V}

\* the k-th smallest value of a set of integers
KthOf(S, k) == CHOOSE v \in S : Cardinality({x \in S : x < v}) = k - 1

\* the last value of the maximal run of V that begins at a
RunLast(V, a) == CHOOSE b \in V : b >= a /\ (\A v \in a..b : v \in V) /\ b + 1 \notin V

\* a run as toString() writes it
WrittenRun(unit, options, a, b) ==
  IF a = b THEN formatValue(unit, options, a)
  ELSE formatValue(unit, options, a) \o <<"-">> \o formatValue(unit, options, b)

\* the maximal runs of V in ascending order, written and joined by commas
WrittenRuns(unit, options, V) ==
  Join([k \in 1..Cardinality(RunStarts(V)) |->
          WrittenRun(unit, options, KthOf(RunStarts(V), k), RunLast(V, KthOf(RunStarts(V), k)))],
       ",")

\* C26: for a value-set that is neither full nor a stepped interval, toString() is
\* the comma-joined list of its maximal runs of consecutive integers in ascending
\* order, "a-b" for a run of two or more and the value alone otherwise, and the runs
\* of toRanges() cover exactly the stored values without overlap
C26_MaximalRuns ==
  (Printed /\ ~IsFullSet(units[pUnit], pValues) /\ ~IsSteppedSet(pValues))
  => /\ pText = WrittenRuns(units[pUnit], pOptions, ValueSet(pValues))
     /\ \E rs \in {toRanges(pValues)} :
          /\ \A k \in 1..Len(rs) : Len(rs[k]) = 2 => rs[k][1] < rs[k][2]
          /\ \A k \in 1..(Len(rs) - 1) : rs[k][Len(rs[k])] + 1 < rs[k + 1][1]
          /\ UNION {rs[k][1] .. rs[k][Len(rs[k])] : k \in 1..Len(rs)} = ValueSet(pValues)

\* "1,2,5-10" as minutes prints as "1-2,5-10": a run of two and a run of six
C26_Witness ==
  /\ Printed
  /\ units[pUnit].name = "minute"
  /\ pValues = <<1, 2, 5, 6, 7, 8, 9, 10>>
  /\ pText = <<"1", "-", "2", ",", "5", "-", "1", "0">>


-----------------------------------------------------------------------------
(* C27: the text after the '/' *)

\* the text has one '/' and the list before it parses when given alone
HasStepText(unit, str) ==
  /\ HasSlash(str)
  /\ Len(Split(str, "/")) = 2
  /\ fromString(unit, Split(str, "/")[1]).err = "none"

\* C27: Part.fromString accepts "list/s" exactly when s is a positive integer written
\* as a numeral; for any other text after the '/' (zero, negative, empty, not a
\* number) it raises the invalid-step error and leaves the Part without values
C27_StepIsPositiveInteger ==
  (pLastOp = "fromString" /\ HasStepText(units[pUnit], pInput.v))
  => \E s \in {Split(pInput.v, "/")[2]} :
       IF IsNumeral(s) /\ DigitsValue(s) >= 1
       THEN pErr = "none"
       ELSE pErr = "Invalid interval step value" /\ pValues = Undefined


-----------------------------------------------------------------------------
(* C28: prev() and next() as inverse steps *)

-----------------------------------------------------------------------------
(* C29: the schedule under the seeker's calls *)

=============================================================================
